---- MODULE Spec2Model ----
(***************************************************************************)
(* HydraVPN (github.com/hydravpn/hydra): the server's address pool, its    *)
(* per-connection handler and session table, the key schedule, and one     *)
(* client/server link with its two tunnels.                                *)
(*                                                                         *)
(* Addresses are host numbers: host h stands for subnet base + h           *)
(* (10.8.0.h on the server's subnet).                                      *)
(***************************************************************************)
EXTENDS Integers, Sequences, FiniteSets, TLC

VARIABLES
    \* IPPool (server.go:55-61): [maxHosts, used, nextHost].
    ipPool,
    \* What the last direct pool call returned, the number of Allocate calls
    \* made while no Release has happened, and whether none has happened.
    poolRet, poolCalls, poolFresh,
    \* Key schedule under test: the shared secret and salt given to both
    \* sides, the initiator's and the responder's crypto.Session, the
    \* ciphertexts in flight and the outcome of the last Decrypt.
    kSecret, kSalt, kI, kR, kWire, kGot,
    \* Server (server.go:20-35): its key pair, whether its context is
    \* cancelled, and the session table, session id -> ClientSession.
    srvKeyPair, ctxDone, sessions,
    \* Per accepted connection: the handleConnection task (where it stands,
    \* its sessionID, clientIP and cryptoSession, and how often it has
    \* called Release).
    handler,
    \* Per connection: "none", "open" or "closed", and the messages in
    \* flight from client to server and from server to client.
    connState, c2s, s2c,
    \* The datagrams the server has written to and read from its tunnel.
    srvTunWritten, srvTunRead,
    \* Client (client.go:19-36): where it stands (pc), which of Connect's
    \* callers runs, its keyPair, conn, cryptoSession, sessionID, assignedIP,
    \* serverIP and connected.
    cli,
    \* The datagrams the client has read from and written to its tunnel.
    cliTunRead, cliTunWritten,
    \* Per connection, the public keys seen in its handshake: the one in the
    \* HandshakeInit and the one in the HandshakeResponse (0: none yet).
    hsKeys,
    \* Framing under test: a Packet, a byte string, and what Marshal and
    \* UnmarshalPacket returned on them.
    frame,
    \* One transport connection under test: its variant, its two ends and
    \* the bytes or messages in flight each way.
    tr,
    \* The client's tasks and what it holds: whether its context is
    \* cancelled, c.tunDevice and the tunnel devices open, how many
    \* tunReadLoop, receiveLoop and keepaliveLoop tasks run and what each is
    \* blocked on, the connections dialed and not closed by the client, how
    \* far a call of Disconnect has come, the send key and the counter bytes
    \* of the nonce of every packet the tasks sealed, and the task that was
    \* the last in Encrypt on the present c.cryptoSession.
    run,
    \* The server's clock, what time.Now() returns.
    now,
    \* Per connection, what the conn.Read calls of its handler returned.
    fed,
    \* A client host and its TUNDevice: the operating system, the host's
    \* routing table, the device's originalGateway and vpnServerIP, the
    \* calls of SetDefaultRoute made and what the last returned, whether
    \* Close was called, and the default gateway and the routing table the
    \* host had before the device was opened.
    net,
    \* The client's tasks step by step: the fields of Client they share,
    \* where each task stands in its code, which tasks are inside a Write
    \* of which connection, and what has happened so far.
    ct

poolVars == <<ipPool, poolRet, poolCalls, poolFresh>>
callVars == <<poolRet, poolCalls, poolFresh>>
keyVars == <<kSecret, kSalt, kI, kR, kWire, kGot>>
serverVars == <<srvKeyPair, ctxDone, sessions, handler, connState, c2s, s2c,
                srvTunWritten, srvTunRead>>
clientVars == <<cli, cliTunRead, cliTunWritten, hsKeys>>
auxVars == <<frame, tr, run, now, fed, net, ct>>
vars == <<ipPool, poolRet, poolCalls, poolFresh,
          kSecret, kSalt, kI, kR, kWire, kGot,
          srvKeyPair, ctxDone, sessions, handler, connState, c2s, s2c,
          srvTunWritten, srvTunRead,
          cli, cliTunRead, cliTunWritten, hsKeys, frame, tr, run, now, fed, net, ct>>

(***************************************************************************)
(* Bounds of the model.                                                    *)
(***************************************************************************)
\* Subnets of 2^2 .. 2^MaxHostBits addresses are given to NewIPPool.
MaxHostBits == 3
\* GenerateKeyPair is called at most MaxKeyGen times; private scalars are
\* 1 .. MaxKeyGen.
MaxKeyGen == 2
\* Random salts are 0 .. MaxSalt; 0 stands for the all-zero 32 bytes.
MaxSalt == 1
\* The random half of a nonce (bytes 8-23) is 0 .. MaxRnd.
MaxRnd == 1
\* Each crypto.Session seals at most MaxSend packets.
MaxSend == 2
\* At most MaxInFlight messages are in flight in one direction.
MaxInFlight == 1
\* Tunnel datagrams carry a body 1 .. MaxBody.
MaxBody == 2
\* The listener accepts at most NConn connections.
NConn == 3
\* Each tunnel delivers at most MaxTun datagrams.
MaxTun == 1
\* Packets given to Marshal carry a payload of at most MaxPayload bytes.
MaxPayload == 2
\* Messages written to a transport under test have 1 .. MaxMsgLen bytes,
\* and each end writes at most MaxWrites of them.
MaxMsgLen == 2
MaxWrites == 2
\* Session ids drawn from the CSPRNG are 1 .. MaxSessionID.
MaxSessionID == 2
\* The server's pool is built over ServerMaxHosts addresses instead of the
\* 256 of 10.8.0.0/24: hosts 2 .. ServerMaxHosts-2 are handed out.
ServerMaxHosts == 5
\* SpecRoute: the calls of SetDefaultRoute on one device.
MaxSet == 2
\* SpecRace: the connections the client dials and the reconnectLoop tasks
\* alive at a time.
MaxLinks == 2
MaxLoops == 2
\* SpecWebSocket: messages have 1 .. MaxWsLen bytes and the caller's buffer
\* 1 .. MaxWsLen bytes; at most MaxWsWrites messages are written.
MaxWsLen == 3
MaxWsWrites == 3
\* SpecSession: connections dialed, messages read by all handlers together,
\* clock ticks.
MaxSess == 2
MaxFed == 4
MaxClock == 1
\* The datagrams the client's tunReadLoop tasks seal.
MaxSeal == 2

(***************************************************************************)
(* IPPool (pkg/server/server.go).                                          *)
(***************************************************************************)
NoIP == 0
Exhausted == "IP pool exhausted"

\* p.subnet.Mask.Size() gives ones, bits; maxHosts := uint32(1 << (bits - ones)).
\* The pool record keeps the subnet as its number of addresses.
NewIPPool(maxHosts) ==
    [maxHosts |-> maxHosts, used |-> {}, nextHost |-> 2]

\* ScanHost with the modulus taken over all maxHosts addresses.
ScanHostModAll(p, i) ==
    LET hostNum == (p.nextHost + i) % p.maxHosts
    IN  IF hostNum < 2 THEN 2 ELSE hostNum

\* ScanHost without the clamp "if hostNum < 2 { hostNum = 2 }" (lines 84-86).
ScanHostNoReserve(p, i) == (p.nextHost + i) % (p.maxHosts - 1)

\* hostNum := (p.nextHost + i) % (maxHosts - 1); if hostNum < 2 { hostNum = 2 }
ScanHost(p, i) ==
    LET hostNum == (p.nextHost + i) % (p.maxHosts - 1)
    IN  IF hostNum < 2 THEN 2 ELSE hostNum

\* for i := uint32(0); i < maxHosts-2; i++ { ... first host not in used ... }
RECURSIVE AllocScan(_, _)
AllocScan(p, i) ==
    IF i >= p.maxHosts - 2
    THEN [pool |-> p, ip |-> NoIP, err |-> Exhausted]
    ELSE LET hostNum == ScanHost(p, i)
         IN  IF hostNum \notin p.used
             THEN [pool |-> [p EXCEPT !.used = @ \cup {hostNum},
                                      !.nextHost = hostNum + 1],
                   ip |-> hostNum, err |-> ""]
             ELSE AllocScan(p, i + 1)

\* An Allocate that forgets p.used[ip.String()] = true (line 92).
AllocateNoMark(p) == [AllocScan(p, 0) EXCEPT !.pool.used = p.used]

Allocate(p) == AllocScan(p, 0)

\* A Release that also moves the cursor back to the freed address.
\* A Release that frees nothing.
ReleaseKeeps(p, ip) == p

ReleaseRewind(p, ip) == [p EXCEPT !.used = @ \ {ip}, !.nextHost = ip]

\* delete(p.used, ip.String())
Release(p, ip) == [p EXCEPT !.used = @ \ {ip}]

\* The addresses a pool may hand out: host numbers 2 .. capacity-1, where
\* capacity = maxHosts - 1 (.2 to .254 on a /24).
Hosts(p) == 2 .. (p.maxHosts - 2)
PoolSize(p) == p.maxHosts - 3

(***************************************************************************)
(* Crypto (pkg/crypto/crypto.go).  A private scalar is the number of the   *)
(* GenerateKeyPair call that drew it (the CSPRNG does not repeat); public  *)
(* point n is ScalarBaseMult of scalar n and point 0 is a low-order point. *)
(* HKDF and the AEAD are ideal: a derived key is its inputs, a sealed box  *)
(* opens under the key and nonce it was sealed with and nothing else.      *)
(***************************************************************************)
LowOrderPoint == 0
ZeroSecret == {}
ZeroSalt == 0
NonceSize == 24
TagSize == 16

\* curve25519.ScalarBaseMult(&kp.PublicKey, &kp.PrivateKey)
GenerateKeyPair(n) == [PrivateKey |-> n, PublicKey |-> n]

\* curve25519.ScalarMult: the same point for (a, B) and (b, A); all-zero for
\* a low-order peer point, which is rejected.
ComputeSharedSecret(privateKey, peerPublicKey) ==
    LET sharedSecret == IF peerPublicKey = LowOrderPoint
                        THEN ZeroSecret
                        ELSE {privateKey, peerPublicKey}
    IN  IF sharedSecret = ZeroSecret
        THEN [secret |-> ZeroSecret, err |-> TRUE]
        ELSE [secret |-> sharedSecret, err |-> FALSE]

\* hkdf.New(sha256.New, sharedSecret, salt, "hydravpn-session-keys"): the
\* n-th 32 bytes read from the reader.
HKDFKey(sharedSecret, salt, n) ==
    [secret |-> sharedSecret, salt |-> salt, n |-> n]

\* DeriveSessionKeys with the two directions not swapped for the responder.
DeriveSessionKeysNoSwap(sharedSecret, isInitiator, salt) ==
    [SendKey |-> HKDFKey(sharedSecret, salt, 1),
     RecvKey |-> HKDFKey(sharedSecret, salt, 2),
     SendNonce |-> 0, RecvNonce |-> 0]

DeriveSessionKeys(sharedSecret, isInitiator, salt) ==
    LET key1 == HKDFKey(sharedSecret, salt, 1)
        key2 == HKDFKey(sharedSecret, salt, 2)
    IN  IF isInitiator
        THEN [SendKey |-> key1, RecvKey |-> key2, SendNonce |-> 0, RecvNonce |-> 0]
        ELSE [SendKey |-> key2, RecvKey |-> key1, SendNonce |-> 0, RecvNonce |-> 0]

\* A crypto.Session of no handshake.
NoSession == DeriveSessionKeys(ZeroSecret, TRUE, ZeroSalt)

\* s.sendCipher.Seal(nonce, nonce, plaintext, nil): nonce || box.
Seal(key, nonce, plaintext) ==
    [len |-> NonceSize + plaintext.len + TagSize,
     nonce |-> nonce,
     box |-> [key |-> key, nonce |-> nonce, plaintext |-> plaintext]]

\* A payload too short to hold a nonce.
ShortCiphertext ==
    [len |-> NonceSize - 1,
     nonce |-> [ctr |-> 0, rnd |-> 0],
     box |-> [key |-> HKDFKey(ZeroSecret, ZeroSalt, 0),
              nonce |-> [ctr |-> 0, rnd |-> 0],
              plaintext |-> [len |-> 0, dst |-> 0, body |-> 0]]]

\* Session.Encrypt: nonce bytes 0-7 are the send counter, 8-23 random.
Encrypt(s, plaintext, rnd) ==
    LET nonce == [ctr |-> s.SendNonce, rnd |-> rnd]
    IN  [session |-> [s EXCEPT !.SendNonce = @ + 1],
         ciphertext |-> Seal(s.SendKey, nonce, plaintext)]

\* A Decrypt that counts every call, s.RecvNonce++ before the checks.
DecryptCountsCalls(s, ciphertext) ==
    LET t == [s EXCEPT !.RecvNonce = @ + 1]
    IN  IF ciphertext.len < NonceSize
        THEN [session |-> t, plaintext |-> ShortCiphertext.box.plaintext, err |-> TRUE]
        ELSE IF ciphertext.box.key = s.RecvKey /\ ciphertext.box.nonce = ciphertext.nonce
        THEN [session |-> t, plaintext |-> ciphertext.box.plaintext, err |-> FALSE]
        ELSE [session |-> t, plaintext |-> ShortCiphertext.box.plaintext, err |-> TRUE]

\* Session.Decrypt: s.recvCipher.Open(nil, nonce, ciphertext, nil).
Decrypt(s, ciphertext) ==
    IF ciphertext.len < NonceSize
    THEN [session |-> s, plaintext |-> ShortCiphertext.box.plaintext, err |-> TRUE]
    ELSE IF ciphertext.box.key = s.RecvKey /\ ciphertext.box.nonce = ciphertext.nonce
    THEN [session |-> [s EXCEPT !.RecvNonce = @ + 1],
          plaintext |-> ciphertext.box.plaintext, err |-> FALSE]
    ELSE [session |-> s, plaintext |-> ShortCiphertext.box.plaintext, err |-> TRUE]

\* An IPv4 datagram of the tunnel: its length, destination host (bytes
\* 16-19) and the rest of its content.
IPv4HeaderSize == 20
Datagram(dst, body) == [len |-> IPv4HeaderSize + body, dst |-> dst, body |-> body]

(***************************************************************************)
(* Framing (pkg/protocol/protocol.go).  A message on the wire is its       *)
(* header fields and its payload; a payload is a record with its length in *)
(* bytes (len) and the fields its layout holds.                            *)
(***************************************************************************)
MagicByte1 == 72
MagicByte2 == 86
ProtocolVersion == 1
PacketTypeHandshakeInit == 1
PacketTypeHandshakeResponse == 2
PacketTypeData == 3
PacketTypeKeepAlive == 4
PacketTypeDisconnect == 5
HandshakeInitSize == 72
HandshakeResponseSize == 81
MaxUint16 == 65535

EmptyPayload == [len |-> 0]

\* A NewPacket that leaves Header.Length unset.
NewPacketNoLength(packetType, sessionID, payload) ==
    [Magic |-> <<MagicByte1, MagicByte2>>,
     Version |-> ProtocolVersion,
     Type |-> packetType,
     SessionID |-> sessionID,
     Length |-> 0,
     Payload |-> payload]

NewPacket(packetType, sessionID, payload) ==
    [Magic |-> <<MagicByte1, MagicByte2>>,
     Version |-> ProtocolVersion,
     Type |-> packetType,
     SessionID |-> sessionID,
     Length |-> payload.len % (MaxUint16 + 1),
     Payload |-> payload]

\* Packet.Marshal: header bytes 0-1, 2, 3, 4-11, 12-13, then the payload.
Marshal(p) ==
    [magic1 |-> p.Magic[1], magic2 |-> p.Magic[2], version |-> p.Version,
     type |-> p.Type, sid |-> p.SessionID, length |-> p.Length,
     payload |-> p.Payload]

\* An UnmarshalPacket that does not look at the magic bytes.
UnmarshalPacketAnyMagic(data) ==
    LET p == [Magic |-> <<data.magic1, data.magic2>>, Version |-> data.version,
              Type |-> data.type, SessionID |-> data.sid,
              Length |-> data.length, Payload |-> data.payload]
    IN  IF data.version # ProtocolVersion
        THEN [packet |-> p, err |-> "unsupported protocol version"]
        ELSE IF data.length # data.payload.len
        THEN [packet |-> p, err |-> "payload length mismatch"]
        ELSE [packet |-> p, err |-> ""]

\* UnmarshalPacket: magic, version, then Length against len(data)-HeaderSize.
UnmarshalPacket(data) ==
    LET p == [Magic |-> <<data.magic1, data.magic2>>, Version |-> data.version,
              Type |-> data.type, SessionID |-> data.sid,
              Length |-> data.length, Payload |-> data.payload]
    IN  IF data.magic1 # MagicByte1 \/ data.magic2 # MagicByte2
        THEN [packet |-> p, err |-> "invalid magic bytes"]
        ELSE IF data.version # ProtocolVersion
        THEN [packet |-> p, err |-> "unsupported protocol version"]
        ELSE IF data.length # data.payload.len
        THEN [packet |-> p, err |-> "payload length mismatch"]
        ELSE [packet |-> p, err |-> ""]

\* MarshalHandshakeInit: public key, timestamp and padding, 72 bytes.
MarshalHandshakeInit(h) ==
    [len |-> HandshakeInitSize, ClientPublicKey |-> h.ClientPublicKey]

UnmarshalHandshakeInit(data) ==
    IF data.len < HandshakeInitSize
    THEN [h |-> [ClientPublicKey |-> LowOrderPoint], err |-> "handshake init too short"]
    ELSE [h |-> [ClientPublicKey |-> data.ClientPublicKey], err |-> ""]

\* MarshalHandshakeResponse: 81 bytes.
MarshalHandshakeResponse(h) ==
    [len |-> HandshakeResponseSize, ServerPublicKey |-> h.ServerPublicKey,
     SessionID |-> h.SessionID, AssignedIP |-> h.AssignedIP,
     ServerIP |-> h.ServerIP, Subnet |-> h.Subnet]

UnmarshalHandshakeResponse(data) ==
    IF data.len < HandshakeResponseSize
    THEN [h |-> [ServerPublicKey |-> LowOrderPoint, SessionID |-> 0,
                 AssignedIP |-> NoIP, ServerIP |-> NoIP, Subnet |-> 0],
          err |-> "handshake response too short"]
    ELSE [h |-> [ServerPublicKey |-> data.ServerPublicKey,
                 SessionID |-> data.SessionID, AssignedIP |-> data.AssignedIP,
                 ServerIP |-> data.ServerIP, Subnet |-> data.Subnet],
          err |-> ""]

\* What a conn.Read returns: an error, or one message.
ReadErr == [err |-> TRUE, msg |-> Marshal(NewPacket(0, 0, EmptyPayload))]
Received(msg) == [err |-> FALSE, msg |-> msg]

(***************************************************************************)
(* Server (pkg/server/server.go).  A handleConnection task stands at       *)
(*   "idle"        not accepted yet                                        *)
(*   "accepted"    blocked in the first conn.Read (line 232)               *)
(*   "allocated"   Allocate returned an address (277), before line 292     *)
(*   "registered"  session stored in the table (294), before the Write     *)
(*   "established" blocked in the data loop's conn.Read (332)              *)
(*   "releasing"   returned; the deferred delete (298) done, before 300    *)
(*   "closed"      finished, connection closed (228)                       *)
(* clientIP and err are the handler's locals of those names (err: what it *)
(* returned with before registering); released counts its calls of         *)
(* ipPool.Release.  cryptoSession and LastSeen are the fields of the       *)
(* ClientSession the handler built (284-290) and the table points to.      *)
(* Steps that touch nothing shared (parsing, key agreement, deciding to    *)
(* return) are taken together with the next step that does.                *)
(***************************************************************************)
Conns == 1..NConn
SessionIDs == 1..MaxSessionID
ServerIP == 1
SubnetBits == 24
ServerKeyGen == 1

IdleHandler ==
    [pc |-> "idle", sessionID |-> 0, clientIP |-> NoIP,
     cryptoSession |-> DeriveSessionKeys(ZeroSecret, FALSE, ZeroSalt),
     released |-> 0, err |-> "", LastSeen |-> 0]

\* server.New: key pair, empty table, live context; no handler runs yet.
ServerFields ==
    /\ srvKeyPair = GenerateKeyPair(ServerKeyGen)
    /\ sessions = <<>>
    /\ ctxDone = FALSE
    /\ handler = [c \in Conns |-> IdleHandler]
    /\ srvTunWritten = <<>>
    /\ srvTunRead = <<>>

\* server.New with its pool over the subnet (146-147).
ServerNew ==
    /\ ServerFields
    /\ ipPool = NewIPPool(ServerMaxHosts)

\* No connection has been dialed.
NoConnections ==
    /\ connState = [c \in Conns |-> "none"]
    /\ c2s = [c \in Conns |-> <<>>]
    /\ s2c = [c \in Conns |-> <<>>]

\* A deferred function without its delete (298).
DeleteNothing(table, sessionID) == table

\* delete(s.sessions, sessionID)
DeleteSession(table, sessionID) ==
    [id \in DOMAIN table \ {sessionID} |-> table[id]]

\* s.sessions[sessionID] = session
StoreSession(table, sessionID, session) ==
    [id \in DOMAIN table \cup {sessionID} |->
        IF id = sessionID THEN session ELSE table[id]]

\* A handler that ignores the error of Allocate.
AllocateNeverFailed(a) == FALSE

\* if err != nil after s.ipPool.Allocate() (278)
AllocateFailed(a) == a.err # ""

\* acceptLoop: Accept returns the next connection and a handler is spawned.
Accept(c) ==
    /\ ~ctxDone
    /\ handler[c].pc = "idle"
    /\ connState[c] # "none"
    /\ \A d \in Conns : d < c => handler[d].pc # "idle"
    /\ handler' = [handler EXCEPT ![c].pc = "accepted"]
    /\ UNCHANGED <<srvKeyPair, ctxDone, sessions, connState, s2c,
                   srvTunWritten, srvTunRead, ipPool>>

\* The err a handler returns with before Allocate (233, 240, 245, 252, 259).
HandshakeError == "handshake error"

\* A handler that only asks its first message to be a packet.
HandshakeRejectedUnparsed(in) ==
    \/ in.err
    \/ UnmarshalPacket(in.msg).err # ""

\* Lines 232-262: the first message is no usable HandshakeInit.
HandshakeRejected(in) ==
    \/ in.err
    \/ UnmarshalPacket(in.msg).err # ""
    \/ UnmarshalPacket(in.msg).packet.Type # PacketTypeHandshakeInit
    \/ UnmarshalHandshakeInit(in.msg.payload).err # ""
    \/ ComputeSharedSecret(srvKeyPair.PrivateKey,
           UnmarshalHandshakeInit(in.msg.payload).h.ClientPublicKey).err

\* Lines 232-281 on the first message `in`: parse, key agreement, the salt
\* and the session id that GenerateRandomBytes returned (265, 273), Allocate.
\* A failure returns and closes the connection (228).
HandshakeRead(c, in, salt, sessionID) ==
    /\ handler[c].pc = "accepted"
    /\ IF HandshakeRejected(in)
       THEN /\ handler' = [handler EXCEPT ![c].pc = "closed",
                                          ![c].err = HandshakeError]
            /\ connState' = [connState EXCEPT ![c] = "closed"]
            /\ UNCHANGED ipPool
       ELSE LET hsInit == UnmarshalHandshakeInit(in.msg.payload).h
                shared == ComputeSharedSecret(srvKeyPair.PrivateKey,
                                              hsInit.ClientPublicKey)
                cryptoSession == DeriveSessionKeys(shared.secret, FALSE, salt)
                a == Allocate(ipPool)
            IN  IF AllocateFailed(a)
                THEN /\ handler' = [handler EXCEPT ![c].pc = "closed",
                                                   ![c].err = a.err]
                     /\ connState' = [connState EXCEPT ![c] = "closed"]
                     /\ UNCHANGED ipPool
                ELSE /\ handler' = [handler EXCEPT ![c] =
                            [pc |-> "allocated", sessionID |-> sessionID,
                             clientIP |-> a.ip, cryptoSession |-> cryptoSession,
                             released |-> 0, err |-> "", LastSeen |-> 0]]
                     /\ ipPool' = a.pool
                     /\ UNCHANGED connState
    /\ UNCHANGED <<srvKeyPair, ctxDone, sessions, s2c, srvTunWritten, srvTunRead>>

\* Lines 284-294: the session, LastSeen: time.Now(), enters the table under
\* its id.
Register(c) ==
    /\ handler[c].pc = "allocated"
    /\ sessions' = StoreSession(sessions, handler[c].sessionID,
                      [ID |-> handler[c].sessionID, Conn |-> c,
                       AssignedIP |-> handler[c].clientIP])
    /\ handler' = [handler EXCEPT ![c].pc = "registered",
                                  ![c].LastSeen = now]
    /\ UNCHANGED <<srvKeyPair, ctxDone, connState, s2c, srvTunWritten,
                   srvTunRead, ipPool>>

\* The handler returns after registering: the deferred function (296-302)
\* deletes the table entry under the handler's session id.  cryptoSession
\* and lastSeen are what the turn that returns left in the session.
ReturnAndDelete(c, cryptoSession, lastSeen) ==
    /\ sessions' = DeleteSession(sessions, handler[c].sessionID)
    /\ handler' = [handler EXCEPT ![c].pc = "releasing",
                                  ![c].cryptoSession = cryptoSession,
                                  ![c].LastSeen = lastSeen]

\* After a loop turn that continues: the context check at the loop's top
\* (326-330), then the next conn.Read.
ContinueLoop(c, cryptoSession, lastSeen) ==
    IF ctxDone
    THEN ReturnAndDelete(c, cryptoSession, lastSeen)
    ELSE /\ handler' = [handler EXCEPT ![c].pc = "established",
                                       ![c].cryptoSession = cryptoSession,
                                       ![c].LastSeen = lastSeen]
         /\ UNCHANGED sessions

\* conn.Write(msg) by the server: the message is in flight to the client
\* unless the connection is closed (then Write returns an error).
ConnWrite(c, msg) ==
    IF connState[c] = "open"
    THEN /\ Len(s2c[c]) < MaxInFlight
         /\ s2c' = [s2c EXCEPT ![c] = Append(@, msg)]
    ELSE UNCHANGED s2c

\* Lines 305-330: the HandshakeResponse is written; a write error returns.
WriteResponse(c) ==
    /\ handler[c].pc = "registered"
    /\ LET hsResp == [ServerPublicKey |-> srvKeyPair.PublicKey,
                      SessionID |-> handler[c].sessionID,
                      AssignedIP |-> handler[c].clientIP,
                      ServerIP |-> ServerIP, Subnet |-> SubnetBits]
           respPacket == NewPacket(PacketTypeHandshakeResponse,
                             handler[c].sessionID,
                             MarshalHandshakeResponse(hsResp))
       IN  ConnWrite(c, Marshal(respPacket))
    /\ IF connState[c] # "open"
       THEN ReturnAndDelete(c, handler[c].cryptoSession, handler[c].LastSeen)
       ELSE ContinueLoop(c, handler[c].cryptoSession, handler[c].LastSeen)
    /\ UNCHANGED <<srvKeyPair, ctxDone, connState, srvTunWritten, srvTunRead,
                   ipPool>>

\* A data loop that takes a Disconnect for one more packet to skip.
IsDisconnectNever(packetType) == FALSE

\* case protocol.PacketTypeDisconnect: return (367-369)
IsDisconnect(packetType) == packetType = PacketTypeDisconnect

\* Lines 332-370: one turn of the data loop on what conn.Read returned.
\* A message that parses sets session.LastSeen = time.Now() (344) before
\* its type is looked at.
LoopRead(c, in) ==
    /\ handler[c].pc = "established"
    /\ LET cs == handler[c].cryptoSession
           u == UnmarshalPacket(in.msg)
           d == Decrypt(cs, in.msg.payload)
           seen == handler[c].LastSeen
       IN  IF in.err
           THEN /\ ReturnAndDelete(c, cs, seen)
                /\ UNCHANGED <<s2c, srvTunWritten>>
           ELSE IF u.err # ""
           THEN /\ ContinueLoop(c, cs, seen)
                /\ UNCHANGED <<s2c, srvTunWritten>>
           ELSE IF u.packet.Type = PacketTypeData
           THEN IF d.err
                THEN /\ ContinueLoop(c, cs, now)
                     /\ UNCHANGED <<s2c, srvTunWritten>>
                ELSE /\ srvTunWritten' = Append(srvTunWritten, d.plaintext)
                     /\ ContinueLoop(c, d.session, now)
                     /\ UNCHANGED s2c
           ELSE IF u.packet.Type = PacketTypeKeepAlive
           THEN /\ ConnWrite(c, Marshal(NewPacket(PacketTypeKeepAlive,
                                   handler[c].sessionID, EmptyPayload)))
                /\ ContinueLoop(c, cs, now)
                /\ UNCHANGED srvTunWritten
           ELSE IF IsDisconnect(u.packet.Type)
           THEN /\ ReturnAndDelete(c, cs, now)
                /\ UNCHANGED <<s2c, srvTunWritten>>
           ELSE /\ ContinueLoop(c, cs, now)
                /\ UNCHANGED <<s2c, srvTunWritten>>
    /\ UNCHANGED <<srvKeyPair, ctxDone, connState, srvTunRead, ipPool>>

\* Line 300, s.ipPool.Release(clientIP), then the deferred conn.Close()
\* (228); the task is over and its session id and crypto session are gone.
ReleaseIP(c) ==
    /\ handler[c].pc = "releasing"
    /\ ipPool' = Release(ipPool, handler[c].clientIP)
    /\ connState' = [connState EXCEPT ![c] = "closed"]
    /\ handler' = [handler EXCEPT ![c] =
           [IdleHandler EXCEPT !.pc = "closed",
                               !.clientIP = handler[c].clientIP,
                               !.released = handler[c].released + 1]]
    /\ UNCHANGED <<srvKeyPair, ctxDone, sessions, s2c, srvTunWritten, srvTunRead>>

\* Server.Stop: s.cancel(); the listener and the tunnel are closed.
Stop ==
    /\ ~ctxDone
    /\ ctxDone' = TRUE
    /\ UNCHANGED <<srvKeyPair, sessions, handler, connState, s2c,
                   srvTunWritten, srvTunRead, ipPool>>

\* A scan of the table that takes every session for the addressee.
MatchingAny(table, destIP) == DOMAIN table

\* for _, session := range s.sessions { if session.AssignedIP.Equal(destIP)
Matching(table, destIP) ==
    {i \in DOMAIN table : table[i].AssignedIP = destIP}

\* tunReadLoop (375-422), one turn on datagram d read from the tunnel: a
\* datagram of 20 bytes or more is sealed for the session whose AssignedIP
\* is its destination and written to that session's connection.
ServerTunReadLoop(d, rnd) ==
    /\ ~ctxDone
    /\ srvTunRead' = Append(srvTunRead, d)
    /\ LET ids == Matching(sessions, d.dst)
       IN  IF d.len < IPv4HeaderSize \/ ids = {}
           THEN UNCHANGED <<handler, s2c>>
           ELSE \E i \in ids :
                  LET c == sessions[i].Conn
                      e == Encrypt(handler[c].cryptoSession, d, rnd)
                  IN  /\ handler' = [handler EXCEPT ![c].cryptoSession = e.session]
                      /\ ConnWrite(c, Marshal(NewPacket(PacketTypeData,
                                        sessions[i].ID, e.ciphertext)))
    /\ UNCHANGED <<srvKeyPair, ctxDone, sessions, connState, srvTunWritten, ipPool>>

(***************************************************************************)
(* Client (pkg/client/client.go).  The client stands at                    *)
(*   "new"           client.New returned, Connect not called               *)
(*   "handshake"     Connect dialed and wrote the HandshakeInit, blocked   *)
(*                   in the Read of performHandshake (174)                 *)
(*   "connected"     Connect returned nil: tunReadLoop and receiveLoop run *)
(*   "reconnecting"  handleDisconnect started reconnectLoop                *)
(*   "disconnected"  handleDisconnect without AutoReconnect                *)
(*   "failed"        the first Connect returned an error                   *)
(*   "stopped"       Disconnect was called                                 *)
(***************************************************************************)
\* DefaultConfig().AutoReconnect
AutoReconnect == TRUE

NoKeys == [client |-> 0, server |-> 0]

\* client.New: the key pair is generated; nothing is connected.
ClientNew ==
    /\ cli = [pc |-> "new", caller |-> "main",
              keyPair |-> GenerateKeyPair(MaxKeyGen), conn |-> 0,
              cryptoSession |-> NoSession, sessionID |-> 0,
              assignedIP |-> NoIP, serverIP |-> NoIP, connected |-> FALSE]
    /\ cliTunRead = <<>>
    /\ cliTunWritten = <<>>
    /\ hsKeys = [c \in Conns |-> NoKeys]

\* What conn.Read returns on a channel: the oldest message in flight, or an
\* error once the connection is closed and nothing is left in flight.
ChannelRead(channel) ==
    IF channel # <<>> THEN Received(Head(channel)) ELSE ReadErr

CanRead(channel, state) == channel # <<>> \/ state = "closed"

Taken(channel) == IF channel # <<>> THEN Tail(channel) ELSE channel

\* Connect (94-111) and performHandshake (156-170): Dial the next
\* connection and write the HandshakeInit with c.keyPair.PublicKey.
Connect(c) ==
    /\ cli.pc \in {"new", "reconnecting"}
    /\ c = cli.conn + 1
    /\ connState[c] = "none"
    /\ connState' = [connState EXCEPT ![c] = "open"]
    /\ LET hsInit == [ClientPublicKey |-> cli.keyPair.PublicKey]
           initPacket == NewPacket(PacketTypeHandshakeInit, 0,
                                   MarshalHandshakeInit(hsInit))
       IN  c2s' = [c2s EXCEPT ![c] = <<Marshal(initPacket)>>]
    /\ cli' = [cli EXCEPT !.pc = "handshake", !.conn = c,
                          !.caller = IF cli.pc = "new" THEN "main"
                                     ELSE "reconnectLoop"]
    /\ hsKeys' = [hsKeys EXCEPT ![c].client = cli.keyPair.PublicKey]
    /\ UNCHANGED <<s2c, cliTunRead, cliTunWritten>>

\* Lines 174-199: what the client read is no usable HandshakeResponse.
ResponseRejected(in) ==
    \/ in.err
    \/ UnmarshalPacket(in.msg).err # ""
    \/ UnmarshalPacket(in.msg).packet.Type # PacketTypeHandshakeResponse
    \/ UnmarshalHandshakeResponse(in.msg.payload).err # ""
    \/ ComputeSharedSecret(cli.keyPair.PrivateKey,
           UnmarshalHandshakeResponse(in.msg.payload).h.ServerPublicKey).err

\* handleDisconnect (338-352)
handleDisconnect(k) ==
    IF ~k.connected THEN k
    ELSE [k EXCEPT !.connected = FALSE,
                   !.pc = IF AutoReconnect THEN "reconnecting"
                          ELSE "disconnected"]

\* performHandshake from its Read (174-213) and the rest of Connect
\* (107-152): a failure closes the connection and Connect returns the error
\* (reconnectLoop then tries again); otherwise the keys are derived with
\* the all-zero salt (202), the session is stored and the loops start.
PerformHandshake ==
    /\ cli.pc = "handshake"
    /\ CanRead(s2c[cli.conn], connState[cli.conn])
    /\ LET c == cli.conn
           in == ChannelRead(s2c[c])
           hsResp == UnmarshalHandshakeResponse(in.msg.payload).h
           shared == ComputeSharedSecret(cli.keyPair.PrivateKey,
                                         hsResp.ServerPublicKey)
       IN  /\ s2c' = [s2c EXCEPT ![c] = Taken(@)]
           /\ IF ResponseRejected(in)
              THEN /\ connState' = [connState EXCEPT ![c] = "closed"]
                   /\ cli' = [cli EXCEPT !.pc = IF cli.caller = "main"
                                                THEN "failed"
                                                ELSE "reconnecting"]
                   /\ UNCHANGED hsKeys
              ELSE /\ cli' = [cli EXCEPT
                         !.pc = "connected",
                         !.cryptoSession =
                             DeriveSessionKeys(shared.secret, TRUE, ZeroSalt),
                         !.sessionID = hsResp.SessionID,
                         !.assignedIP = hsResp.AssignedIP,
                         !.serverIP = hsResp.ServerIP,
                         !.connected = TRUE]
                   /\ hsKeys' = [hsKeys EXCEPT ![c].server = hsResp.ServerPublicKey]
                   /\ UNCHANGED connState
    /\ UNCHANGED <<c2s, cliTunRead, cliTunWritten>>

\* tunReadLoop (217-253), one turn on datagram d read from the tunnel: it
\* is sealed and written as a Data packet; a write error ends the loop
\* through handleDisconnect.
ClientTunReadLoop(d, rnd) ==
    /\ cli.pc = "connected"
    /\ cliTunRead' = Append(cliTunRead, d)
    /\ LET c == cli.conn
           e == Encrypt(cli.cryptoSession, d, rnd)
           packet == NewPacket(PacketTypeData, cli.sessionID, e.ciphertext)
       IN  IF connState[c] = "open"
           THEN /\ Len(c2s[c]) < MaxInFlight
                /\ c2s' = [c2s EXCEPT ![c] = Append(@, Marshal(packet))]
                /\ cli' = [cli EXCEPT !.cryptoSession = e.session]
           ELSE /\ cli' = handleDisconnect([cli EXCEPT !.cryptoSession = e.session])
                /\ UNCHANGED c2s
    /\ UNCHANGED <<connState, s2c, cliTunWritten, hsKeys>>

\* receiveLoop (256-308), one turn on what conn.Read returned.
ClientReceiveLoop ==
    /\ cli.pc = "connected"
    /\ CanRead(s2c[cli.conn], connState[cli.conn])
    /\ LET c == cli.conn
           in == ChannelRead(s2c[c])
           u == UnmarshalPacket(in.msg)
           d == Decrypt(cli.cryptoSession, in.msg.payload)
       IN  /\ s2c' = [s2c EXCEPT ![c] = Taken(@)]
           /\ IF in.err
              THEN /\ cli' = handleDisconnect(cli)
                   /\ UNCHANGED cliTunWritten
              ELSE IF u.err # ""
              THEN UNCHANGED <<cli, cliTunWritten>>
              ELSE IF u.packet.Type = PacketTypeData
              THEN IF d.err
                   THEN UNCHANGED <<cli, cliTunWritten>>
                   ELSE /\ cli' = [cli EXCEPT !.cryptoSession = d.session]
                        /\ cliTunWritten' = Append(cliTunWritten, d.plaintext)
              ELSE IF u.packet.Type = PacketTypeDisconnect
              THEN /\ cli' = handleDisconnect(cli)
                   /\ UNCHANGED cliTunWritten
              ELSE UNCHANGED <<cli, cliTunWritten>>
    /\ UNCHANGED <<connState, c2s, cliTunRead, hsKeys>>

\* keepaliveLoop (311-335), one tick while connected: a KeepAlive packet is
\* written; a write error is only logged.
ClientKeepAlive ==
    /\ cli.pc = "connected"
    /\ cli.connected
    /\ LET c == cli.conn
           packet == NewPacket(PacketTypeKeepAlive, cli.sessionID, EmptyPayload)
       IN  IF connState[c] = "open"
           THEN /\ Len(c2s[c]) < MaxInFlight
                /\ c2s' = [c2s EXCEPT ![c] = Append(@, Marshal(packet))]
           ELSE UNCHANGED c2s
    /\ UNCHANGED <<connState, s2c, cli, cliTunRead, cliTunWritten, hsKeys>>

\* Disconnect (376-399), called by the program's main task once Connect
\* has returned: connected is cleared, the Disconnect packet is written on
\* c.conn (a write error is ignored) and c.conn is closed.
Disconnect ==
    /\ cli.pc # "stopped"
    /\ ~(cli.pc = "handshake" /\ cli.caller = "main")
    /\ LET c == cli.conn
           packet == NewPacket(PacketTypeDisconnect, cli.sessionID, EmptyPayload)
       IN  IF c # 0 /\ connState[c] = "open"
           THEN /\ Len(c2s[c]) < MaxInFlight
                /\ c2s' = [c2s EXCEPT ![c] = Append(@, Marshal(packet))]
                /\ connState' = [connState EXCEPT ![c] = "closed"]
           ELSE UNCHANGED <<c2s, connState>>
    /\ cli' = [cli EXCEPT !.pc = "stopped", !.connected = FALSE]
    /\ UNCHANGED <<s2c, cliTunRead, cliTunWritten, hsKeys>>

(***************************************************************************)
(* The client's tasks.  Connect starts a receiveLoop and a keepaliveLoop   *)
(* and, when tun.New succeeds, a tunReadLoop; each is a goroutine counted  *)
(* in c.wg.  A tunReadLoop is blocked in the Read of a tunnel device, a    *)
(* receiveLoop in the Read of a connection, a keepaliveLoop on its ticker. *)
(* The tunnel device opened by the Connect on connection c is device c.    *)
(***************************************************************************)
NoTasks ==
    [ctx |-> FALSE, tunDevice |-> 0, devOpen |-> {},
     tunOn |-> [d \in Conns |-> 0], recvOn |-> [c \in Conns |-> 0], ka |-> 0,
     held |-> {}, disc |-> "no", sealed |-> <<>>, sealer |-> 0]

\* A task blocked on `from` goes round its loop: it returns at the context
\* check at the loop's top, or blocks again, now on `to` (c.tunDevice or
\* c.conn as it is then).
LoopAgain(on, from, to) ==
    IF run.ctx THEN [on EXCEPT ![from] = @ - 1]
    ELSE [[on EXCEPT ![from] = @ - 1] EXCEPT ![to] = @ + 1]

\* Connect (94-103) and performHandshake up to its Read: Dial(c.ctx, ...)
\* fails once the context is cancelled; c.conn = conn.
TaskConnect(c) ==
    /\ ~run.ctx
    /\ Connect(c)
    /\ run' = [run EXCEPT !.held = @ \cup {c}]

\* The rest of Connect (107-152).  A failed handshake closes the connection
\* (109).  Otherwise tun.New succeeds or fails (tunOK): only on success is
\* c.tunDevice set and a tunReadLoop started; then receiveLoop and
\* keepaliveLoop are started.
TaskPerformHandshake(tunOK) ==
    /\ PerformHandshake
    /\ LET c == cli.conn
       IN  run' =
             IF ResponseRejected(ChannelRead(s2c[c]))
             THEN [run EXCEPT !.held = @ \ {c}]
             ELSE IF tunOK
             THEN [run EXCEPT !.tunDevice = c, !.devOpen = @ \cup {c},
                              !.tunOn[c] = @ + 1,
                              !.recvOn[c] = @ + 1, !.ka = @ + 1, !.sealer = 0]
             ELSE [run EXCEPT !.recvOn[c] = @ + 1, !.ka = @ + 1, !.sealer = 0]

\* Session.Encrypt takes no lock (crypto.go:106-122): when another running
\* tunReadLoop was the last in Encrypt on c.cryptoSession, the two calls may
\* have overlapped, this one having loaded s.SendNonce before the other
\* stored its increment; its own store then writes the same value again.
StaleLoads(dev) ==
    IF run.sealer \notin {0, dev} /\ run.tunOn[run.sealer] > 0
       /\ cli.cryptoSession.SendNonce > 0
    THEN {FALSE, TRUE}
    ELSE {FALSE}

\* tunReadLoop (217-253): the Read of a task blocked on device dev returns
\* datagram d; it is sealed with c.cryptoSession and written on c.conn as
\* they are now.  A write error calls handleDisconnect and ends the task.
TunReadLoopTurn(dev, d, rnd) ==
    /\ run.tunOn[dev] > 0
    /\ dev \in run.devOpen
    /\ Len(cliTunRead) < MaxSeal
    /\ cliTunRead' = Append(cliTunRead, d)
    /\ \E stale \in StaleLoads(dev) :
         LET c == cli.conn
             loaded == IF stale
                       THEN [cli.cryptoSession EXCEPT !.SendNonce = @ - 1]
                       ELSE cli.cryptoSession
             e == Encrypt(loaded, d, rnd)
             packet == NewPacket(PacketTypeData, cli.sessionID, e.ciphertext)
             log == Append(run.sealed, [key |-> loaded.SendKey,
                                        ctr |-> e.ciphertext.nonce.ctr])
         IN  IF connState[c] = "open"
             THEN /\ Len(c2s[c]) < MaxInFlight
                  /\ c2s' = [c2s EXCEPT ![c] = Append(@, Marshal(packet))]
                  /\ cli' = [cli EXCEPT !.cryptoSession = e.session]
                  /\ run' = [run EXCEPT !.tunOn = LoopAgain(@, dev, run.tunDevice),
                                        !.sealed = log, !.sealer = dev]
             ELSE /\ cli' = handleDisconnect([cli EXCEPT !.cryptoSession = e.session])
                  /\ run' = [run EXCEPT !.tunOn[dev] = @ - 1,
                                        !.sealed = log, !.sealer = dev]
                  /\ UNCHANGED c2s
    /\ UNCHANGED <<connState, s2c, cliTunWritten, hsKeys>>

\* tunReadLoop (229-233): the device the task is blocked on was closed, its
\* Read fails, and the task returns since the context is cancelled.
TunReadLoopClosed(dev) ==
    /\ run.tunOn[dev] > 0
    /\ dev \notin run.devOpen
    /\ run.ctx
    /\ run' = [run EXCEPT !.tunOn[dev] = @ - 1]
    /\ UNCHANGED <<connState, c2s, s2c, clientVars>>

\* receiveLoop (256-308): the Read of a task blocked on connection c
\* returns.  An error ends the task, through handleDisconnect unless the
\* context is cancelled; so does a Disconnect packet.
ReceiveLoopTurn(c) ==
    /\ run.recvOn[c] > 0
    /\ CanRead(s2c[c], connState[c])
    /\ LET in == ChannelRead(s2c[c])
           u == UnmarshalPacket(in.msg)
           d == Decrypt(cli.cryptoSession, in.msg.payload)
           return == [run EXCEPT !.recvOn[c] = @ - 1]
           continue == [run EXCEPT !.recvOn = LoopAgain(@, c, cli.conn)]
       IN  /\ s2c' = [s2c EXCEPT ![c] = Taken(@)]
           /\ IF in.err
              THEN /\ cli' = IF run.ctx THEN cli ELSE handleDisconnect(cli)
                   /\ run' = return
                   /\ UNCHANGED cliTunWritten
              ELSE IF u.err # ""
              THEN /\ run' = continue
                   /\ UNCHANGED <<cli, cliTunWritten>>
              ELSE IF u.packet.Type = PacketTypeData
              THEN IF d.err
                   THEN /\ run' = continue
                        /\ UNCHANGED <<cli, cliTunWritten>>
                   ELSE /\ cli' = [cli EXCEPT !.cryptoSession = d.session]
                        /\ cliTunWritten' =
                              IF run.tunDevice # 0 /\ run.tunDevice \in run.devOpen
                              THEN Append(cliTunWritten, d.plaintext)
                              ELSE cliTunWritten
                        /\ run' = continue
              ELSE IF u.packet.Type = PacketTypeDisconnect
              THEN /\ cli' = handleDisconnect(cli)
                   /\ run' = return
                   /\ UNCHANGED cliTunWritten
              ELSE /\ run' = continue
                   /\ UNCHANGED <<cli, cliTunWritten>>
    /\ UNCHANGED <<connState, c2s, cliTunRead, hsKeys>>

\* keepaliveLoop (311-335), one task at its select: it returns when the
\* context is cancelled or, at a tick, when connected is false; otherwise
\* it writes a KeepAlive packet on c.conn (a write error is only logged).
KeepaliveTick ==
    /\ run.ka > 0
    /\ LET c == cli.conn
           packet == NewPacket(PacketTypeKeepAlive, cli.sessionID, EmptyPayload)
       IN  IF run.ctx \/ ~cli.connected
           THEN /\ run' = [run EXCEPT !.ka = @ - 1]
                /\ UNCHANGED c2s
           ELSE /\ connState[c] = "open"
                /\ Len(c2s[c]) < MaxInFlight
                /\ c2s' = [c2s EXCEPT ![c] = Append(@, Marshal(packet))]
                /\ UNCHANGED run
    /\ UNCHANGED <<connState, s2c, clientVars>>

\* Disconnect (376-396) up to wg.Wait(): besides what it does to c.conn it
\* cancels the context and closes c.tunDevice.
TaskDisconnect ==
    /\ run.disc = "no"
    /\ Disconnect
    /\ run' = [run EXCEPT !.ctx = TRUE, !.held = @ \ {cli.conn},
                          !.devOpen = @ \ {run.tunDevice}, !.disc = "waiting"]

RECURSIVE SumUpTo(_, _)
SumUpTo(f, n) == IF n = 0 THEN 0 ELSE f[n] + SumUpTo(f, n - 1)

\* The tunReadLoop and the receiveLoop tasks running.
TunTasks == SumUpTo(run.tunOn, NConn)
RecvTasks == SumUpTo(run.recvOn, NConn)

\* wg.Wait() (396) returns when no counted task is left, and so does
\* Disconnect.
DisconnectReturns ==
    /\ run.disc = "waiting"
    /\ TunTasks + RecvTasks + run.ka = 0
    /\ run' = [run EXCEPT !.disc = "returned"]
    /\ UNCHANGED <<connState, c2s, s2c, clientVars>>

(***************************************************************************)
(* Framing at the level of bytes (pkg/protocol/protocol.go).  A byte is    *)
(* 0 .. 255, a byte string a sequence of bytes (byte i of the code is      *)
(* element i+1).  A uint64 is its four 16-bit limbs, most significant      *)
(* first; a uint16 is a number.                                            *)
(***************************************************************************)
HeaderSize == 14
ByteRange == 256

\* binary.BigEndian.PutUint16 / Uint16
PutUint16(v) == <<v \div ByteRange, v % ByteRange>>
Uint16(b) == b[1] * ByteRange + b[2]

\* binary.BigEndian.PutUint64 / Uint64
PutUint64(v) ==
    PutUint16(v[1]) \o PutUint16(v[2]) \o PutUint16(v[3]) \o PutUint16(v[4])
Uint64(b) ==
    <<Uint16(SubSeq(b, 1, 2)), Uint16(SubSeq(b, 3, 4)),
      Uint16(SubSeq(b, 5, 6)), Uint16(SubSeq(b, 7, 8))>>

\* uint16(len(payload)) (line 78)
TruncUint16(n) == n % (MaxUint16 + 1)

\* NewPacket on a byte-string payload.
NewPacketBytes(packetType, sessionID, payload) ==
    [Header |-> [Magic |-> <<MagicByte1, MagicByte2>>,
                 Version |-> ProtocolVersion,
                 Type |-> packetType,
                 SessionID |-> sessionID,
                 Length |-> TruncUint16(Len(payload))],
     Payload |-> payload]

\* A Marshal that writes the length field little-endian.
MarshalBytesLE(p) ==
    <<p.Header.Magic[1], p.Header.Magic[2], p.Header.Version, p.Header.Type>>
    \o PutUint64(p.Header.SessionID)
    \o <<p.Header.Length % ByteRange, p.Header.Length \div ByteRange>>
    \o p.Payload

\* Packet.Marshal (85-100)
MarshalBytes(p) ==
    <<p.Header.Magic[1], p.Header.Magic[2], p.Header.Version, p.Header.Type>>
    \o PutUint64(p.Header.SessionID)
    \o PutUint16(p.Header.Length)
    \o p.Payload

\* The nil *Packet returned with an error.
NilPacket == NewPacketBytes(0, <<0, 0, 0, 0>>, <<>>)

\* An UnmarshalPacket without the length validation (129-131).
UnmarshalBytesAnyLength(data) ==
    IF Len(data) < HeaderSize
    THEN [p |-> NilPacket, err |-> "packet too short"]
    ELSE IF data[1] # MagicByte1 \/ data[2] # MagicByte2
    THEN [p |-> NilPacket, err |-> "invalid magic bytes"]
    ELSE IF data[3] # ProtocolVersion
    THEN [p |-> NilPacket, err |-> "unsupported protocol version"]
    ELSE [p |-> [Header |-> [Magic |-> <<data[1], data[2]>>,
                             Version |-> data[3],
                             Type |-> data[4],
                             SessionID |-> Uint64(SubSeq(data, 5, 12)),
                             Length |-> Uint16(SubSeq(data, 13, 14))],
                 Payload |-> SubSeq(data, HeaderSize + 1, Len(data))],
          err |-> ""]

\* UnmarshalPacket (103-138)
UnmarshalBytes(data) ==
    IF Len(data) < HeaderSize
    THEN [p |-> NilPacket, err |-> "packet too short"]
    ELSE IF data[1] # MagicByte1 \/ data[2] # MagicByte2
    THEN [p |-> NilPacket, err |-> "invalid magic bytes"]
    ELSE IF data[3] # ProtocolVersion
    THEN [p |-> NilPacket, err |-> "unsupported protocol version"]
    ELSE IF Uint16(SubSeq(data, 13, 14)) # Len(data) - HeaderSize
    THEN [p |-> NilPacket, err |-> "payload length mismatch"]
    ELSE [p |-> [Header |-> [Magic |-> <<data[1], data[2]>>,
                             Version |-> data[3],
                             Type |-> data[4],
                             SessionID |-> Uint64(SubSeq(data, 5, 12)),
                             Length |-> Uint16(SubSeq(data, 13, 14))],
                 Payload |-> SubSeq(data, HeaderSize + 1, Len(data))],
          err |-> ""]

\* No framing under test.
NoFrame ==
    [phase |-> "none", p |-> NilPacket, data |-> <<>>, edit |-> "none",
     flip |-> [byte |-> 0, bit |-> 0],
     res |-> [p |-> NilPacket, err |-> ""], back |-> <<>>]

(***************************************************************************)
(* Transport connections (pkg/transport).  A connection has two ends, "A"  *)
(* and "B"; end A writes on wire "AB" and reads wire "BA".  A WebSocket    *)
(* wire holds messages (gorilla's ReadMessage / WriteMessage); a QUIC      *)
(* stream and the TLS connection under an ObfuscatedConnection hold bytes. *)
(***************************************************************************)
KeySize == 32
LengthPrefixSize == 4

TrEnds == {"A", "B"}
OutWire(e) == IF e = "A" THEN "AB" ELSE "BA"
InWire(e) == IF e = "A" THEN "BA" ELSE "AB"

\* x ^ y on bytes
RECURSIVE XorByte(_, _)
XorByte(x, y) ==
    IF x = 0 THEN y
    ELSE IF y = 0 THEN x
    ELSE 2 * XorByte(x \div 2, y \div 2) + ((x + y) % 2)

\* obfuscate (539-544): data XORed with the key from position keyPos on;
\* the position after it is (keyPos + len(data)) % len(key).
obfuscate(data, key, keyPos) ==
    [i \in 1..Len(data) |-> XorByte(data[i], key[((keyPos + i - 1) % Len(key)) + 1])]

\* binary.BigEndian.PutUint32 of a length below 2^16, and Uint32 capped at
\* 2^16 (all that Read asks of it is whether it exceeds 65535).
PutUint32(v) == <<0, 0>> \o PutUint16(v)
Uint32(b) ==
    IF b[1] # 0 \/ b[2] # 0 THEN MaxUint16 + 1 ELSE Uint16(SubSeq(b, 3, 4))

Min(a, b) == IF a < b THEN a ELSE b

\* No transport under test.
NoTransport ==
    [variant |-> "none", key |-> <<>>,
     ends |-> [e \in TrEnds |-> [keyPos |-> 0, readBuf |-> <<>>, err |-> FALSE]],
     wire |-> [w \in {"AB", "BA"} |-> <<>>],
     sent |-> [w \in {"AB", "BA"} |-> <<>>],
     got |-> [w \in {"AB", "BA"} |-> <<>>],
     small |-> FALSE]

(***************************************************************************)
(* TUNDevice route policy (pkg/tun).  A routing table is a set of routes   *)
(* [dst, via, metric]; dst is "default" or a host address.  The commands   *)
(* are `route` on darwin and `ip route` on linux; an error of a command    *)
(* whose error the code ignores leaves the table as it was.                *)
(***************************************************************************)
NoGateway == ""
\* "metric", "1" of the default route added on linux.
VPNMetric == 1

Defaults(routes) == {r \in routes : r.dst = "default"}

\* The route the host sends by when no other matches: the default route of
\* the lowest metric.
DefaultRoute(routes) ==
    IF Defaults(routes) = {} THEN NoGateway
    ELSE (CHOOSE r \in Defaults(routes) :
              \A q \in Defaults(routes) : r.metric <= q.metric).via

\* getDefaultGateway: `route -n get default` prints the gateway of the
\* default route; `ip route show default` lists the default routes by
\* metric and the first "via" is taken.
getDefaultGateway(routes) ==
    [gateway |-> DefaultRoute(routes),
     err |-> IF Defaults(routes) = {} THEN "gateway not found" ELSE ""]

\* route add -host S G / ip route add S via G: fails if S has a route.
AddHostRoute(routes, server, gateway) ==
    IF \E r \in routes : r.dst = server THEN routes
    ELSE routes \cup {[dst |-> server, via |-> gateway, metric |-> 0]}

\* route delete -host S / ip route del S
DeleteHostRoute(routes, server) == {r \in routes : r.dst # server}

\* route delete default
DeleteDefault(routes) == routes \ Defaults(routes)

\* route add default G / ip route add default via G metric m: fails if a
\* default route of that metric is there.
AddDefault(routes, gateway, metric) ==
    IF \E r \in Defaults(routes) : r.metric = metric
    THEN [routes |-> routes, err |-> "failed to add default route"]
    ELSE [routes |-> routes \cup {[dst |-> "default", via |-> gateway,
                                   metric |-> metric]},
          err |-> ""]

\* ip route del default via G
DeleteDefaultVia(routes, gateway) ==
    {r \in routes : ~(r.dst = "default" /\ r.via = gateway)}

\* setDefaultRouteDarwin on device d with routing table `routes`.
setDefaultRouteDarwin(d, routes) ==
    LET g == getDefaultGateway(routes)
        r1 == IF d.vpnServerIP # "" THEN AddHostRoute(routes, d.vpnServerIP, g.gateway)
              ELSE routes
        r2 == DeleteDefault(r1)
        a == AddDefault(r2, d.remoteIP, 0)
    IN  IF g.err # ""
        THEN [d |-> d, routes |-> routes, err |-> "failed to get default gateway"]
        ELSE [d |-> [d EXCEPT !.originalGateway = g.gateway],
              routes |-> a.routes, err |-> a.err]

\* setDefaultRouteLinux: the default route via the tunnel peer is added
\* with metric 1 beside the routes that are there.
setDefaultRouteLinux(d, routes) ==
    LET g == getDefaultGateway(routes)
        r1 == IF d.vpnServerIP # "" THEN AddHostRoute(routes, d.vpnServerIP, g.gateway)
              ELSE routes
        a == AddDefault(r1, d.remoteIP, VPNMetric)
    IN  IF g.err # ""
        THEN [d |-> d, routes |-> routes, err |-> "failed to get default gateway"]
        ELSE [d |-> [d EXCEPT !.originalGateway = g.gateway],
              routes |-> a.routes, err |-> a.err]

\* removeDefaultRouteDarwin
removeDefaultRouteDarwin(d, routes) ==
    LET r1 == DeleteDefault(routes)
        r2 == IF d.originalGateway # ""
              THEN AddDefault(r1, d.originalGateway, 0).routes ELSE r1
    IN  IF d.vpnServerIP # "" THEN DeleteHostRoute(r2, d.vpnServerIP) ELSE r2

\* removeDefaultRouteLinux
removeDefaultRouteLinux(d, routes) ==
    LET r1 == DeleteDefaultVia(routes, d.remoteIP)
    IN  IF d.vpnServerIP # "" THEN DeleteHostRoute(r1, d.vpnServerIP) ELSE r1

\* tun.New: a device with its peer address and the server's real address.
NewTUNDevice(vpnServerIP) ==
    [remoteIP |-> "10.8.0.1", originalGateway |-> "", vpnServerIP |-> vpnServerIP]

\* No host is looked at.
NoHost ==
    [os |-> "", routes |-> {}, d |-> NewTUNDevice(""), sets |-> 0,
     err |-> "", closed |-> FALSE, prior |-> NoGateway, before |-> {}]

\* SetDefaultRoute (482-491) on the host's table.
SetDefaultRoute ==
    /\ ~net.closed
    /\ net.sets < MaxSet
    /\ LET r == IF net.os = "darwin" THEN setDefaultRouteDarwin(net.d, net.routes)
                ELSE setDefaultRouteLinux(net.d, net.routes)
       IN  net' = [net EXCEPT !.d = r.d, !.routes = r.routes, !.err = r.err,
                              !.sets = @ + 1]

\* Close (647-654): RemoveDefaultRoute, then the interface is closed.
Close ==
    /\ ~net.closed
    /\ net' = [net EXCEPT
                 !.routes = IF net.os = "darwin"
                            THEN removeDefaultRouteDarwin(net.d, net.routes)
                            ELSE removeDefaultRouteLinux(net.d, net.routes),
                 !.closed = TRUE]

(***************************************************************************)
(* The client's tasks step by step (pkg/client/client.go).  ct holds       *)
(*   conn, connected, ctx, tunDevice   the fields c.conn, c.connected,     *)
(*                  c.ctx (TRUE once cancelled) and c.tunDevice            *)
(*   link[n]        connection n: "none", "open", "lost" (the transport    *)
(*                  failed: Read and Write return errors) or "closed" (by  *)
(*                  the client)                                            *)
(*   dev[n]         the tunnel device made by the Connect that dialed n    *)
(*   at[k]          where the caller k of Connect stands, k = 0 the main   *)
(*                  task, k > 0 a reconnectLoop: "sleep" (355-364), "dial" *)
(*                  (99), "hsread" (174), "setup" (116), "start" (142),    *)
(*                  "done", "failed", "none"                               *)
(*   dialed[k]      the local conn of that Connect                         *)
(*   disc           where Disconnect stands: "no", "cleared" (381),        *)
(*                  "writing" (386), "closed" (387), "waiting" (396),      *)
(*                  "returned"                                             *)
(*   tunOn[d], recvOn[n], ka   the tunReadLoops blocked in the Read of     *)
(*                  device d, the receiveLoops blocked in the Read of      *)
(*                  connection n, the keepaliveLoops at their select       *)
(*   kaPast         the keepaliveLoops between RUnlock (327) and Write     *)
(*   inWrite[w][n][ok]   the tasks of kind w inside conn.Write on n; ok    *)
(*                  tells whether the connection took the frame            *)
(*   cleared        the connections that were c.conn when connected was    *)
(*                  set to false                                           *)
(*   lateKA         the connections that took a KeepAlive frame after that *)
(*   spawned[n]     the reconnectLoops started by tasks that saw the loss  *)
(*                  of connection n                                        *)
(*   after          what happened after Disconnect returned                *)
(***************************************************************************)
Links == 1..MaxLinks
Loops == 1..MaxLoops
Callers == 0..MaxLoops
Writers == {"tunReadLoop", "keepaliveLoop", "Disconnect"}

NoRace ==
    [conn |-> 0, connected |-> FALSE, ctx |-> FALSE, tunDevice |-> 0,
     link |-> [n \in Links |-> "none"], dev |-> [n \in Links |-> "none"],
     at |-> [k \in Callers |-> "none"], dialed |-> [k \in Callers |-> 0],
     disc |-> "no",
     tunOn |-> [n \in Links |-> 0], recvOn |-> [n \in Links |-> 0],
     ka |-> 0, kaPast |-> 0,
     inWrite |-> [w \in Writers |-> [n \in Links |-> [ok \in BOOLEAN |-> 0]]],
     cleared |-> {}, lateKA |-> {}, spawned |-> [n \in Links |-> 0],
     after |-> {}]

\* The tasks of kind w inside Write on connection n, and on any connection.
InWrite(t, w, n) == t.inWrite[w][n][TRUE] + t.inWrite[w][n][FALSE]
Inside(t, w) == SumUpTo([n \in Links |-> InWrite(t, w, n)], MaxLinks)

\* The counter of c.wg: the tasks Connect started that have not returned.
Wg(t) ==
    SumUpTo(t.tunOn, MaxLinks) + SumUpTo(t.recvOn, MaxLinks) + t.ka + t.kaPast
    + Inside(t, "tunReadLoop") + Inside(t, "keepaliveLoop")

\* Something happens; it is remembered if Disconnect has returned.
Event(t, ev) ==
    IF t.disc = "returned" THEN [t EXCEPT !.after = @ \cup {ev}] ELSE t

\* A task calls c.conn.Write: the frame is taken if the connection is open.
EnterWrite(t, w) ==
    [t EXCEPT !.inWrite[w][t.conn][t.link[t.conn] = "open"] = @ + 1]

\* A slot for one more reconnectLoop.
FreeLoop(t) ==
    CHOOSE k \in Loops :
        t.at[k] = "none" /\ \A j \in Loops : j < k => t.at[j] # "none"

CanHandle(t) == ~t.connected \/ \E k \in Loops : t.at[k] = "none"

\* handleDisconnect (338-352) called by a task that saw the loss of
\* connection n: under connMu, connected is cleared if it was set, and
\* then go c.reconnectLoop().
handleDisconnectOn(t, n) ==
    IF ~t.connected THEN t
    ELSE IF AutoReconnect
    THEN [t EXCEPT !.connected = FALSE, !.cleared = @ \cup {t.conn},
                   !.at[FreeLoop(t)] = "sleep", !.spawned[n] = @ + 1]
    ELSE [t EXCEPT !.connected = FALSE, !.cleared = @ \cup {t.conn}]

\* What Connect returns to caller k: the main task stops at an error, a
\* reconnectLoop goes round (366-369) or returns (371).
Failed(k) == IF k = 0 THEN "failed" ELSE "sleep"
Succeeded(k) == IF k = 0 THEN "done" ELSE "none"

\* No framing or transport scenario is running.
NoAux ==
    /\ frame = NoFrame
    /\ tr = NoTransport
    /\ run = NoTasks
    /\ now = 0
    /\ fed = <<>>
    /\ net = NoHost
    /\ ct = NoRace

\* WebSocketConnection.Write (218-224): one binary message.
WebSocketWrite(t, e, b) ==
    [t EXCEPT !.wire[OutWire(e)] = Append(@, b),
              !.sent[OutWire(e)] = Append(@, b)]

\* Read that keeps no residue of a message larger than the buffer.
WebSocketReadNoResidue(t, e, cap) ==
    LET w == InWire(e)
        data == Head(t.wire[w])
    IN  [t EXCEPT !.wire[w] = Tail(@),
                  !.ends[e].readBuf = <<>>,
                  !.got[w] = Append(@, SubSeq(data, 1, Min(cap, Len(data))))]

\* WebSocketConnection.Read (192-215) into a buffer of cap bytes: buffered
\* residue first, else the next message, its tail kept in readBuf.
WebSocketRead(t, e, cap) ==
    LET w == InWire(e)
        buf == t.ends[e].readBuf
        data == Head(t.wire[w])
    IN  IF buf # <<>>
        THEN [t EXCEPT !.ends[e].readBuf = SubSeq(buf, Min(cap, Len(buf)) + 1, Len(buf)),
                       !.got[w] = Append(@, SubSeq(buf, 1, Min(cap, Len(buf))))]
        ELSE [t EXCEPT !.wire[w] = Tail(@),
                       !.ends[e].readBuf = SubSeq(data, Min(cap, Len(data)) + 1, Len(data)),
                       !.got[w] = Append(@, SubSeq(data, 1, Min(cap, Len(data))))]

WebSocketCanRead(t, e) ==
    t.ends[e].readBuf # <<>> \/ t.wire[InWire(e)] # <<>>

\* QUICConnection.Write (94-96): the bytes join the stream.
QUICWrite(t, e, b) ==
    [t EXCEPT !.wire[OutWire(e)] = @ \o b,
              !.sent[OutWire(e)] = Append(@, b)]

\* QUICConnection.Read (89-91): stream.Read returns n of the bytes that
\* have arrived, 1 <= n <= len(b).
QUICRead(t, e, n) ==
    LET w == InWire(e)
    IN  [t EXCEPT !.wire[w] = SubSeq(@, n + 1, Len(@)),
                  !.got[w] = Append(@, SubSeq(t.wire[w], 1, n))]

\* ObfuscatedConnection.Write (577-595)
ObfuscatedWrite(t, e, b) ==
    LET packet == PutUint32(Len(b)) \o b
        keyPos == t.ends[e].keyPos
    IN  [t EXCEPT !.wire[OutWire(e)] = @ \o obfuscate(packet, t.key, keyPos),
                  !.ends[e].keyPos = (keyPos + Len(packet)) % Len(t.key),
                  !.sent[OutWire(e)] = Append(@, b)]

\* The length ObfuscatedConnection.Read decodes from the next four bytes
\* (549-558).
ObfuscatedLength(t, e) ==
    Uint32(obfuscate(SubSeq(t.wire[InWire(e)], 1, LengthPrefixSize),
                     t.key, t.ends[e].keyPos))

\* io.ReadFull returns: the prefix has arrived and the length is refused or
\* the body has arrived too.
ObfuscatedCanRead(t, e) ==
    /\ Len(t.wire[InWire(e)]) >= LengthPrefixSize
    /\ \/ ObfuscatedLength(t, e) > MaxUint16
       \/ Len(t.wire[InWire(e)]) >= LengthPrefixSize + ObfuscatedLength(t, e)

\* ObfuscatedConnection.Read (547-574) into a buffer of cap bytes.
ObfuscatedRead(t, e, cap) ==
    LET w == InWire(e)
        length == ObfuscatedLength(t, e)
        keyPos == t.ends[e].keyPos
        data == obfuscate(SubSeq(t.wire[w], LengthPrefixSize + 1,
                                 LengthPrefixSize + length),
                          t.key, keyPos)
    IN  IF length > MaxUint16
        THEN [t EXCEPT !.wire[w] = SubSeq(@, LengthPrefixSize + 1, Len(@)),
                       !.ends[e].err = TRUE]
        ELSE [t EXCEPT !.wire[w] = SubSeq(@, LengthPrefixSize + length + 1, Len(@)),
                       !.ends[e].keyPos = (keyPos + length) % Len(t.key),
                       !.got[w] = Append(@, SubSeq(data, 1, Min(cap, Len(data))))]

(***************************************************************************)
(* SpecPool: one IPPool driven by any sequence of Allocate and Release.    *)
(* poolRet is what the last call returned, poolCalls counts the Allocate   *)
(* calls made while no Release has happened yet (poolFresh).               *)
(***************************************************************************)
RECURSIVE Pow2(_)
Pow2(n) == IF n = 0 THEN 1 ELSE 2 * Pow2(n - 1)

\* The variables of a part of the system that a specification leaves out.
NoPoolCalls ==
    /\ poolRet = [ip |-> NoIP, err |-> ""]
    /\ poolCalls = 0
    /\ poolFresh = TRUE

NoKeySchedule ==
    /\ kSecret = ZeroSecret
    /\ kSalt = ZeroSalt
    /\ kI = NoSession
    /\ kR = NoSession
    /\ kWire = <<>>
    /\ kGot = <<>>

InitPool ==
    /\ \E bits \in 2..MaxHostBits : ipPool = NewIPPool(Pow2(bits))
    /\ NoPoolCalls
    /\ NoKeySchedule
    /\ ServerFields
    /\ NoConnections
    /\ ClientNew
    /\ NoAux

PoolAllocate ==
    /\ poolFresh => poolCalls < ipPool.maxHosts
    /\ LET r == Allocate(ipPool)
       IN  /\ ipPool' = r.pool
           /\ poolRet' = [ip |-> r.ip, err |-> r.err]
    /\ poolCalls' = IF poolFresh THEN poolCalls + 1 ELSE poolCalls
    /\ UNCHANGED <<poolFresh, keyVars, serverVars, clientVars, auxVars>>

PoolRelease ==
    /\ \E ip \in ipPool.used : ipPool' = Release(ipPool, ip)
    /\ poolRet' = [ip |-> NoIP, err |-> ""]
    /\ poolCalls' = 0
    /\ poolFresh' = FALSE
    /\ UNCHANGED <<keyVars, serverVars, clientVars, auxVars>>

NextPool == PoolAllocate \/ PoolRelease

SpecPool == InitPool /\ [][NextPool]_vars

(***************************************************************************)
(* SpecKeys: DeriveSessionKeys on both sides of one shared secret and one  *)
(* salt, then any sequence of Encrypt on one side and Decrypt on the other.*)
(***************************************************************************)
Secrets == {{a, b} : a, b \in 1..MaxKeyGen}
Salts == 0..MaxSalt
Rnds == 0..MaxRnd
Bodies == 1..MaxBody

InitKeys ==
    /\ kSecret \in Secrets
    /\ kSalt \in Salts
    /\ kI = DeriveSessionKeys(kSecret, TRUE, kSalt)
    /\ kR = DeriveSessionKeys(kSecret, FALSE, kSalt)
    /\ kWire = <<>>
    /\ kGot = <<>>
    /\ ipPool = NewIPPool(Pow2(2))
    /\ NoPoolCalls
    /\ ServerFields
    /\ NoConnections
    /\ ClientNew
    /\ NoAux

\* The initiator seals a datagram for the responder.
KeysEncryptI ==
    /\ kI.SendNonce < MaxSend
    /\ Len(kWire) < MaxInFlight
    /\ \E body \in Bodies, rnd \in Rnds :
          LET pt == Datagram(1, body)
              r == Encrypt(kI, pt, rnd)
          IN  /\ kI' = r.session
              /\ kWire' = Append(kWire, [toInit |-> FALSE, sent |-> pt,
                                         ciphertext |-> r.ciphertext])
    /\ UNCHANGED <<kSecret, kSalt, kR, kGot, poolVars, serverVars, clientVars, auxVars>>

\* The responder seals a datagram for the initiator.
KeysEncryptR ==
    /\ kR.SendNonce < MaxSend
    /\ Len(kWire) < MaxInFlight
    /\ \E body \in Bodies, rnd \in Rnds :
          LET pt == Datagram(2, body)
              r == Encrypt(kR, pt, rnd)
          IN  /\ kR' = r.session
              /\ kWire' = Append(kWire, [toInit |-> TRUE, sent |-> pt,
                                         ciphertext |-> r.ciphertext])
    /\ UNCHANGED <<kSecret, kSalt, kI, kGot, poolVars, serverVars, clientVars, auxVars>>

\* The addressee of the oldest ciphertext in flight opens it.
KeysDecrypt ==
    /\ kWire # <<>>
    /\ LET m == Head(kWire)
           r == Decrypt(IF m.toInit THEN kI ELSE kR, m.ciphertext)
       IN  /\ kGot' = <<[sent |-> m.sent, plaintext |-> r.plaintext, err |-> r.err]>>
           /\ kI' = IF m.toInit THEN r.session ELSE kI
           /\ kR' = IF m.toInit THEN kR ELSE r.session
    /\ kWire' = Tail(kWire)
    /\ UNCHANGED <<kSecret, kSalt, poolVars, serverVars, clientVars, auxVars>>

NextKeys == KeysEncryptI \/ KeysEncryptR \/ KeysDecrypt

SpecKeys == InitKeys /\ [][NextKeys]_vars

(***************************************************************************)
(* SpecOpen: SpecKeys on a wire that may damage what it carries.  The      *)
(* oldest ciphertext in flight is cut below the nonce size, has a bit of   *)
(* its nonce flipped, or is turned back to the side that sealed it.        *)
(***************************************************************************)
Damages == {"cut", "flip", "turn"}

Damage(m, how) ==
    IF how = "cut" THEN [m EXCEPT !.ciphertext.len = NonceSize - 1]
    ELSE IF how = "flip"
    THEN [m EXCEPT !.ciphertext.nonce.rnd = (@ + 1) % (MaxRnd + 1)]
    ELSE [m EXCEPT !.toInit = ~@]

\* What the sender of m sealed is what m carries, to the side it was for.
Intact(m) ==
    m.ciphertext = Seal((IF m.toInit THEN kR ELSE kI).SendKey,
                        m.ciphertext.nonce, m.sent)

KeysDamage ==
    /\ kWire # <<>>
    /\ Intact(Head(kWire))
    /\ \E how \in Damages : kWire' = <<Damage(Head(kWire), how)>> \o Tail(kWire)
    /\ UNCHANGED <<kSecret, kSalt, kI, kR, kGot, poolVars, serverVars, clientVars, auxVars>>

NextOpen == KeysEncryptI \/ KeysEncryptR \/ KeysDecrypt \/ KeysDamage

SpecOpen == InitKeys /\ [][NextOpen]_vars

(***************************************************************************)
(* Spec: the server with any clients.  The environment dials connections,  *)
(* sends any first message and any later message, takes what the server    *)
(* writes, and closes connections (a client going away or a transport      *)
(* error) at any moment.                                                   *)
(***************************************************************************)
\* The private scalar of the clients.
EnvClientKey == MaxKeyGen

\* The salts the server draws here.  The key material has no part in what
\* is checked under Spec; SpecLink draws every salt.
EnvSalts == {MaxSalt}

BadMagic(msg) == [msg EXCEPT !.magic2 = 0]

HandshakeInitMsg(pub, len) ==
    Marshal(NewPacket(PacketTypeHandshakeInit, 0,
        [len |-> len, ClientPublicKey |-> pub]))

\* First messages: HandshakeInit with a good key, with a low-order point,
\* with a short body, with a bad magic; a KeepAlive.
EnvFirstMsgs ==
    { HandshakeInitMsg(EnvClientKey, HandshakeInitSize),
      HandshakeInitMsg(LowOrderPoint, HandshakeInitSize),
      HandshakeInitMsg(EnvClientKey, HandshakeInitSize - 1),
      BadMagic(HandshakeInitMsg(EnvClientKey, HandshakeInitSize)),
      Marshal(NewPacket(PacketTypeKeepAlive, 0, EmptyPayload)) }

\* Later messages: KeepAlive, Disconnect, a bad magic, a HandshakeInit, Data
\* too short to open and Data sealed under another key.  (Data that opens
\* is the matter of SpecLink.)
EnvLaterMsgs(c) ==
    { Marshal(NewPacket(PacketTypeKeepAlive, handler[c].sessionID, EmptyPayload)),
      Marshal(NewPacket(PacketTypeDisconnect, handler[c].sessionID, EmptyPayload)),
      BadMagic(Marshal(NewPacket(PacketTypeKeepAlive, handler[c].sessionID, EmptyPayload))),
      HandshakeInitMsg(EnvClientKey, HandshakeInitSize),
      Marshal(NewPacket(PacketTypeData, handler[c].sessionID, ShortCiphertext)),
      Marshal(NewPacket(PacketTypeData, handler[c].sessionID,
          Encrypt(NoSession, Datagram(ServerIP, 1), 0).ciphertext)) }

\* What a conn.Read of the server may return: a message the client sent, or
\* an error (the client went away or the transport failed before the Read).
EnvReads(c, msgs) ==
    IF connState[c] = "open" THEN {Received(m) : m \in msgs} \cup {ReadErr}
    ELSE {ReadErr}

InitServer ==
    /\ ServerNew
    /\ NoConnections
    /\ ClientNew
    /\ NoAux
    /\ NoPoolCalls
    /\ NoKeySchedule

EnvDial(c) ==
    /\ connState[c] = "none"
    /\ \A d \in Conns : d < c => handler[d].pc # "idle"
    /\ connState' = [connState EXCEPT ![c] = "open"]
    /\ UNCHANGED <<srvKeyPair, ctxDone, sessions, handler, c2s, s2c,
                   srvTunWritten, srvTunRead, ipPool, callVars, keyVars,
                   clientVars, auxVars>>

\* The connection is lost while the server is about to write on it.  (A
\* loss at any other moment shows to the server as the error of its next
\* Read, see EnvReads.)
EnvClose(c) ==
    /\ connState[c] = "open"
    /\ handler[c].pc = "registered"
    /\ connState' = [connState EXCEPT ![c] = "closed"]
    /\ s2c' = [s2c EXCEPT ![c] = <<>>]
    /\ UNCHANGED <<srvKeyPair, ctxDone, sessions, handler, c2s,
                   srvTunWritten, srvTunRead, ipPool, callVars, keyVars,
                   clientVars, auxVars>>

EnvTake(c) ==
    /\ s2c[c] # <<>>
    /\ s2c' = [s2c EXCEPT ![c] = Tail(@)]
    /\ UNCHANGED <<srvKeyPair, ctxDone, sessions, handler, connState, c2s,
                   srvTunWritten, srvTunRead, ipPool, callVars, keyVars,
                   clientVars, auxVars>>

EnvHandshake(c) ==
    /\ \E in \in EnvReads(c, EnvFirstMsgs), salt \in EnvSalts,
          sessionID \in SessionIDs : HandshakeRead(c, in, salt, sessionID)
    /\ UNCHANGED <<c2s, callVars, keyVars,
                   clientVars, auxVars>>

EnvLoop(c) ==
    /\ \E in \in EnvReads(c, EnvLaterMsgs(c)) : LoopRead(c, in)
    /\ UNCHANGED <<c2s, callVars, keyVars,
                   clientVars, auxVars>>

ServerStep(c) ==
    /\ Accept(c) \/ Register(c) \/ WriteResponse(c) \/ ReleaseIP(c)
    /\ UNCHANGED <<c2s, callVars, keyVars,
                   clientVars, auxVars>>

ServerStop ==
    /\ Stop
    /\ UNCHANGED <<c2s, callVars, keyVars,
                   clientVars, auxVars>>

Next ==
    \/ \E c \in Conns : EnvDial(c)
    \/ \E c \in Conns : EnvClose(c)
    \/ \E c \in Conns : EnvTake(c)
    \/ \E c \in Conns : EnvHandshake(c)
    \/ \E c \in Conns : EnvLoop(c)
    \/ \E c \in Conns : ServerStep(c)
    \/ ServerStop

Spec == InitServer /\ [][Next]_vars

\* The handlers take their own steps, and a Read on a connection that is
\* closed returns.  Nothing makes a client whose connection is open send:
\* conn.Read has no deadline (the Connection interface has none to set).
FairServer ==
    /\ Spec
    /\ \A c \in Conns :
          /\ WF_vars(ServerStep(c))
          /\ WF_vars(connState[c] = "closed" /\ EnvHandshake(c))
          /\ WF_vars(connState[c] = "closed" /\ EnvLoop(c))

(***************************************************************************)
(* SpecSession: the server with MaxSess clients that hold the keys of      *)
(* their sessions, its tunnel and its clock.  The handlers read up to      *)
(* MaxFed messages, any first message and any later message, among them    *)
(* Data that opens; fed keeps what each Read returned.  The session ids    *)
(* drawn are distinct (their collisions are the matter of Spec).           *)
(***************************************************************************)
BadVersion(msg) == [msg EXCEPT !.version = ProtocolVersion + 1]

BadLength(msg) == [msg EXCEPT !.length = @ + 1]

\* A Data frame as the client of connection c seals it: under the key the
\* handler of c receives with.
DataFor(c) ==
    LET cs == handler[c].cryptoSession
    IN  Marshal(NewPacket(PacketTypeData, handler[c].sessionID,
            Seal(cs.RecvKey, [ctr |-> cs.RecvNonce, rnd |-> 0],
                 Datagram(ServerIP, 1))))

SessFirstMsgs ==
    EnvFirstMsgs \cup
    { Marshal(NewPacket(PacketTypeData, 0,
          Encrypt(NoSession, Datagram(ServerIP, 1), 0).ciphertext)) }

SessLaterMsgs(c) ==
    EnvLaterMsgs(c) \cup
    { DataFor(c),
      BadVersion(Marshal(NewPacket(PacketTypeKeepAlive, handler[c].sessionID,
                                   EmptyPayload))),
      BadLength(DataFor(c)) }

\* The datagrams the server's tunnel delivers: to each host address and to
\* the server's own, and one too short to hold an IPv4 header.
SessDatagrams ==
    {Datagram(dst, 1) : dst \in Hosts(ipPool) \cup {ServerIP}} \cup
    {[len |-> IPv4HeaderSize - 1, dst |-> 2, body |-> 0]}

InitSession ==
    /\ ServerNew
    /\ NoConnections
    /\ ClientNew
    /\ frame = NoFrame
    /\ tr = NoTransport
    /\ run = NoTasks
    /\ now = 0
    /\ fed = [c \in Conns |-> <<>>]
    /\ net = NoHost
    /\ ct = NoRace
    /\ NoPoolCalls
    /\ NoKeySchedule

restOfSession == <<c2s, callVars, keyVars, clientVars, frame, tr, run, net, ct>>

\* The conn.Read calls that have returned so far.
Reads == SumUpTo([c \in Conns |-> Len(fed[c])], NConn)

SessDial(c) ==
    /\ c <= MaxSess
    /\ EnvDial(c)

SessHandshake(c) ==
    /\ Reads < MaxFed
    /\ \E in \in EnvReads(c, SessFirstMsgs), salt \in EnvSalts :
          /\ HandshakeRead(c, in, salt, c)
          /\ fed' = [fed EXCEPT ![c] = Append(@, in)]
    /\ UNCHANGED <<now, restOfSession>>

SessLoop(c) ==
    /\ Reads < MaxFed
    /\ \E in \in EnvReads(c, SessLaterMsgs(c)) :
          /\ LoopRead(c, in)
          /\ fed' = [fed EXCEPT ![c] = Append(@, in)]
    /\ UNCHANGED <<now, restOfSession>>

SessTun ==
    /\ Len(srvTunRead) < MaxTun
    /\ \E d \in SessDatagrams : ServerTunReadLoop(d, MaxRnd)
    /\ UNCHANGED <<now, fed, restOfSession>>

\* Time passes.
SessTick ==
    /\ now < MaxClock
    /\ now' = now + 1
    /\ UNCHANGED <<poolVars, keyVars, serverVars, clientVars, frame, tr, run, fed, net, ct>>

NextSession ==
    \/ \E c \in Conns : SessDial(c)
    \/ \E c \in Conns : EnvTake(c)
    \/ \E c \in Conns : SessHandshake(c)
    \/ \E c \in Conns : SessLoop(c)
    \/ \E c \in Conns : ServerStep(c)
    \/ SessTun
    \/ SessTick

SpecSession == InitSession /\ [][NextSession]_vars

(***************************************************************************)
(* SpecLink: one client (client.go) and the server over the connections    *)
(* the client dials one after the other.  Messages travel through c2s and  *)
(* s2c; a connection may break at any moment, losing what is in flight.    *)
(* The tunnels deliver datagrams while the client is connected.            *)
(***************************************************************************)
\* The session ids and nonce halves drawn on the link (their collisions
\* are the matter of Spec and SpecKeys).
LinkSessionIDs == {MaxSessionID}
LinkRnds == {MaxRnd}

InitLink ==
    /\ ServerNew
    /\ NoConnections
    /\ ClientNew
    /\ NoAux
    /\ NoPoolCalls
    /\ NoKeySchedule

LinkConnect ==
    /\ \E c \in Conns : Connect(c)
    /\ UNCHANGED <<srvKeyPair, ctxDone, sessions, handler, srvTunWritten,
                   srvTunRead, ipPool, callVars, keyVars, auxVars>>

LinkPerformHandshake ==
    /\ PerformHandshake
    /\ UNCHANGED <<srvKeyPair, ctxDone, sessions, handler, srvTunWritten,
                   srvTunRead, ipPool, callVars, keyVars, auxVars>>

LinkClientTun ==
    /\ Len(cliTunRead) < MaxTun
    /\ \E body \in Bodies, rnd \in LinkRnds :
          ClientTunReadLoop(Datagram(cli.serverIP, body), rnd)
    /\ UNCHANGED <<srvKeyPair, ctxDone, sessions, handler, srvTunWritten,
                   srvTunRead, ipPool, callVars, keyVars, auxVars>>

LinkKeepAlive ==
    /\ ClientKeepAlive
    /\ UNCHANGED <<srvKeyPair, ctxDone, sessions, handler, srvTunWritten,
                   srvTunRead, ipPool, callVars, keyVars, auxVars>>

LinkClientReceive ==
    /\ ClientReceiveLoop
    /\ UNCHANGED <<srvKeyPair, ctxDone, sessions, handler, srvTunWritten,
                   srvTunRead, ipPool, callVars, keyVars, auxVars>>

LinkDisconnect ==
    /\ Disconnect
    /\ UNCHANGED <<srvKeyPair, ctxDone, sessions, handler, srvTunWritten,
                   srvTunRead, ipPool, callVars, keyVars, auxVars>>

\* A transport error: the connection is gone with what was in flight.
ConnBreak(c) ==
    /\ connState[c] = "open"
    /\ connState' = [connState EXCEPT ![c] = "closed"]
    /\ c2s' = [c2s EXCEPT ![c] = <<>>]
    /\ s2c' = [s2c EXCEPT ![c] = <<>>]
    /\ UNCHANGED <<srvKeyPair, ctxDone, sessions, handler, srvTunWritten,
                   srvTunRead, ipPool, callVars, keyVars, clientVars, auxVars>>

LinkHandshake(c) ==
    /\ CanRead(c2s[c], connState[c])
    /\ \E salt \in Salts, sessionID \in LinkSessionIDs :
          HandshakeRead(c, ChannelRead(c2s[c]), salt, sessionID)
    /\ c2s' = [c2s EXCEPT ![c] = Taken(@)]
    /\ UNCHANGED <<callVars, keyVars, clientVars, auxVars>>

LinkLoop(c) ==
    /\ CanRead(c2s[c], connState[c])
    /\ LoopRead(c, ChannelRead(c2s[c]))
    /\ c2s' = [c2s EXCEPT ![c] = Taken(@)]
    /\ UNCHANGED <<callVars, keyVars, clientVars, auxVars>>

LinkServerStep(c) ==
    /\ Accept(c) \/ Register(c) \/ WriteResponse(c) \/ ReleaseIP(c)
    /\ UNCHANGED <<c2s, callVars, keyVars, clientVars, auxVars>>

LinkServerTun ==
    /\ cli.pc = "connected"
    /\ Len(srvTunRead) < MaxTun
    /\ \E dst \in Hosts(ipPool), body \in Bodies, rnd \in LinkRnds :
          ServerTunReadLoop(Datagram(dst, body), rnd)
    /\ UNCHANGED <<c2s, callVars, keyVars, clientVars, auxVars>>

NextLink ==
    \/ LinkConnect
    \/ LinkPerformHandshake
    \/ LinkClientTun
    \/ LinkClientReceive
    \/ LinkKeepAlive
    \/ LinkDisconnect
    \/ LinkServerTun
    \/ \E c \in Conns : ConnBreak(c)
    \/ \E c \in Conns : LinkHandshake(c)
    \/ \E c \in Conns : LinkLoop(c)
    \/ \E c \in Conns : LinkServerStep(c)

SpecLink == InitLink /\ [][NextLink]_vars

\* The tasks blocked in a Read go on when there is something to read, the
\* handlers take their own steps, and the keepalive ticker keeps ticking.
FairLink ==
    /\ SpecLink
    /\ WF_vars(LinkPerformHandshake)
    /\ WF_vars(LinkClientReceive)
    /\ WF_vars(LinkKeepAlive)
    /\ \A c \in Conns :
          /\ WF_vars(LinkHandshake(c))
          /\ WF_vars(LinkLoop(c))
          /\ WF_vars(LinkServerStep(c))

(***************************************************************************)
(* SpecBye: SpecLink with a peer that may also write a Disconnect frame to *)
(* the connected client (the server of this repository writes none).       *)
(***************************************************************************)
LinkBye ==
    /\ cli.pc = "connected"
    /\ connState[cli.conn] = "open"
    /\ Len(s2c[cli.conn]) < MaxInFlight
    /\ s2c' = [s2c EXCEPT ![cli.conn] =
                  Append(@, Marshal(NewPacket(PacketTypeDisconnect,
                                              cli.sessionID, EmptyPayload)))]
    /\ UNCHANGED <<srvKeyPair, ctxDone, sessions, handler, connState, c2s,
                   srvTunWritten, srvTunRead, ipPool, callVars, keyVars,
                   clientVars, auxVars>>

NextBye == NextLink \/ LinkBye

SpecBye == InitLink /\ [][NextBye]_vars

(***************************************************************************)
(* SpecRoute: one client host, darwin or linux, with no default route or   *)
(* one through either of two gateways, of metric 0, 1 or 100 on linux; a   *)
(* device made with or without the server's address; SetDefaultRoute, up   *)
(* to MaxSet times, and Close.                                             *)
(***************************************************************************)
Gateways == {"192.168.1.1", "192.168.2.1"}
PriorMetrics(os) == IF os = "linux" THEN {0, VPNMetric, 100} ELSE {0}
ServerAddrs == {"", "203.0.113.7"}

InitRoute ==
    /\ \E os \in {"darwin", "linux"}, vpnServerIP \in ServerAddrs :
          \/ net = [NoHost EXCEPT !.os = os, !.d = NewTUNDevice(vpnServerIP)]
          \/ \E g \in Gateways, m \in PriorMetrics(os) :
                net = [NoHost EXCEPT
                          !.os = os, !.d = NewTUNDevice(vpnServerIP),
                          !.routes = {[dst |-> "default", via |-> g, metric |-> m]},
                          !.before = {[dst |-> "default", via |-> g, metric |-> m]},
                          !.prior = g]
    /\ ct = NoRace
    /\ frame = NoFrame
    /\ tr = NoTransport
    /\ run = NoTasks
    /\ now = 0
    /\ fed = <<>>
    /\ ServerNew
    /\ NoConnections
    /\ ClientNew
    /\ NoPoolCalls
    /\ NoKeySchedule

restOfRoute ==
    <<poolVars, keyVars, serverVars, clientVars, frame, tr, run, now, fed, ct>>

RouteSet == SetDefaultRoute /\ UNCHANGED restOfRoute

RouteClose == Close /\ UNCHANGED restOfRoute

NextRoute == RouteSet \/ RouteClose

SpecRoute == InitRoute /\ [][NextRoute]_vars

(***************************************************************************)
(* SpecFrame: Marshal and UnmarshalPacket on byte strings.  A packet is    *)
(* marshalled; the bytes are left as they are or one bit is flipped, bytes *)
(* are cut off the end or a byte is appended; the result is unmarshalled   *)
(* and, when that succeeds, marshalled again.                              *)
(***************************************************************************)
FrameTypes == {0, PacketTypeHandshakeInit, PacketTypeData,
               PacketTypeDisconnect, ByteRange - 1}
FrameSessionIDs == {<<0, 0, 0, 0>>, <<0, 0, 0, 1>>, <<258, 0, MaxUint16, 772>>}
FrameBytes == {0, 1, ByteRange - 1}

RECURSIVE ByteStrings(_)
ByteStrings(n) ==
    IF n = 0 THEN {<<>>}
    ELSE ByteStrings(n - 1) \cup
         {Append(b, x) : b \in {y \in ByteStrings(n - 1) : Len(y) = n - 1},
                         x \in FrameBytes}

FramePackets ==
    {NewPacketBytes(t, id, payload) :
        t \in FrameTypes, id \in FrameSessionIDs, payload \in ByteStrings(MaxPayload)}

\* byte b with bit k inverted
FlipBit(b, k) ==
    IF (b \div Pow2(k)) % 2 = 1 THEN b - Pow2(k) ELSE b + Pow2(k)

InitFrame ==
    /\ \E p \in FramePackets : frame = [NoFrame EXCEPT !.phase = "packet", !.p = p]
    /\ tr = NoTransport
    /\ run = NoTasks
    /\ now = 0
    /\ fed = <<>>
    /\ net = NoHost
    /\ ct = NoRace
    /\ ServerNew
    /\ NoConnections
    /\ ClientNew
    /\ NoPoolCalls
    /\ NoKeySchedule

restOfFrame ==
    <<poolVars, keyVars, serverVars, clientVars, tr, run, now, fed, net, ct>>

FrameMarshal ==
    /\ frame.phase = "packet"
    /\ frame' = [frame EXCEPT !.phase = "bytes", !.data = MarshalBytes(frame.p)]
    /\ UNCHANGED restOfFrame

\* Bit k of byte i (counted from 0, as in the code) is inverted on the way.
FrameFlip ==
    /\ frame.phase = "bytes"
    /\ frame.edit = "none"
    /\ \E i \in 0..(Len(frame.data) - 1), k \in 0..7 :
          frame' = [frame EXCEPT !.edit = "flip",
                                 !.flip = [byte |-> i, bit |-> k],
                                 !.data[i + 1] = FlipBit(@, k)]
    /\ UNCHANGED restOfFrame

\* The last byte is lost.
FrameCut ==
    /\ frame.phase = "bytes"
    /\ frame.edit \in {"none", "cut"}
    /\ frame.data # <<>>
    /\ frame' = [frame EXCEPT !.edit = "cut",
                              !.data = SubSeq(@, 1, Len(@) - 1)]
    /\ UNCHANGED restOfFrame

\* A byte follows the packet.
FrameGrow ==
    /\ frame.phase = "bytes"
    /\ frame.edit = "none"
    /\ \E x \in FrameBytes :
          frame' = [frame EXCEPT !.edit = "grow", !.data = Append(@, x)]
    /\ UNCHANGED restOfFrame

FrameUnmarshal ==
    /\ frame.phase = "bytes"
    /\ frame' = [frame EXCEPT !.phase = "parsed",
                              !.res = UnmarshalBytes(frame.data)]
    /\ UNCHANGED restOfFrame

FrameRemarshal ==
    /\ frame.phase = "parsed"
    /\ frame.res.err = ""
    /\ frame' = [frame EXCEPT !.phase = "done",
                              !.back = MarshalBytes(frame.res.p)]
    /\ UNCHANGED restOfFrame

NextFrame ==
    \/ FrameMarshal
    \/ FrameFlip
    \/ FrameCut
    \/ FrameGrow
    \/ FrameUnmarshal
    \/ FrameRemarshal

SpecFrame == InitFrame /\ [][NextFrame]_vars

(***************************************************************************)
(* SpecTransport: one connection of one of the three transports, both ends *)
(* writing messages and reading them into buffers of some capacity.        *)
(***************************************************************************)
TrVariants == {"websocket", "quic", "obfuscated"}

\* The keys rand.Read (477) or SetKey may give: one byte repeated, and
\* bytes that differ from place to place.
TrKeys ==
    {[i \in 1..KeySize |-> 165], [i \in 1..KeySize |-> (7 * i) % ByteRange]}

TrMsgs ==
    {[i \in 1..n |-> i] : n \in 1..MaxMsgLen} \cup
    {[i \in 1..n |-> ByteRange - i] : n \in 1..MaxMsgLen}

\* len(b) of the caller's buffer: one byte, or room for any message.
ReadCaps == {1, MaxMsgLen}

InitTransport ==
    /\ \E v \in TrVariants :
          \E k \in (IF v = "obfuscated" THEN TrKeys ELSE {<<>>}) :
              tr = [NoTransport EXCEPT !.variant = v, !.key = k]
    /\ frame = NoFrame
    /\ run = NoTasks
    /\ now = 0
    /\ fed = <<>>
    /\ net = NoHost
    /\ ct = NoRace
    /\ ServerNew
    /\ NoConnections
    /\ ClientNew
    /\ NoPoolCalls
    /\ NoKeySchedule

restOfTransport ==
    <<poolVars, keyVars, serverVars, clientVars, frame, run, now, fed, net, ct>>

\* conn.Write(b) on end e.
TransportWrite(e, b) ==
    /\ ~tr.ends[e].err
    /\ Len(tr.sent[OutWire(e)]) < MaxWrites
    /\ tr' = CASE tr.variant = "websocket" -> WebSocketWrite(tr, e, b)
               [] tr.variant = "quic" -> QUICWrite(tr, e, b)
               [] tr.variant = "obfuscated" -> ObfuscatedWrite(tr, e, b)
    /\ UNCHANGED restOfTransport

\* conn.Read(buf) on end e with len(buf) = cap returns.
TransportRead(e, cap) ==
    /\ ~tr.ends[e].err
    /\ \E t \in
          CASE tr.variant = "websocket" ->
                  IF WebSocketCanRead(tr, e) THEN {WebSocketRead(tr, e, cap)} ELSE {}
            [] tr.variant = "quic" ->
                  {QUICRead(tr, e, n) : n \in 1..Min(cap, Len(tr.wire[InWire(e)]))}
            [] tr.variant = "obfuscated" ->
                  IF ObfuscatedCanRead(tr, e) THEN {ObfuscatedRead(tr, e, cap)} ELSE {} :
          tr' = [t EXCEPT !.small = @ \/ cap < MaxMsgLen]
    /\ UNCHANGED restOfTransport

NextTransport ==
    \/ \E e \in TrEnds, b \in TrMsgs : TransportWrite(e, b)
    \/ \E e \in TrEnds, cap \in ReadCaps : TransportRead(e, cap)

SpecTransport == InitTransport /\ [][NextTransport]_vars

(***************************************************************************)
(* SpecRace: the client's tasks step by step, against a server that        *)
(* answers every HandshakeInit and sends Data and KeepAlive, over          *)
(* connections that may be lost at any moment.  The main task calls        *)
(* Connect and, once it has returned nil, may call Disconnect.             *)
(***************************************************************************)
InitRace ==
    /\ ct = [NoRace EXCEPT !.at[0] = "dial"]
    /\ frame = NoFrame
    /\ tr = NoTransport
    /\ run = NoTasks
    /\ now = 0
    /\ fed = <<>>
    /\ net = NoHost
    /\ ServerNew
    /\ NoConnections
    /\ ClientNew
    /\ NoPoolCalls
    /\ NoKeySchedule

restOfRace ==
    <<poolVars, keyVars, serverVars, clientVars, frame, tr, run, now, fed, net>>

\* reconnectLoop (355-364): the context check at the loop's top, the sleep,
\* and the call of Connect.
reconnectLoop(k) ==
    /\ ct.at[k] = "sleep"
    /\ ct' = IF ct.ctx THEN [ct EXCEPT !.at[k] = "none"]
             ELSE [ct EXCEPT !.at[k] = "dial"]
    /\ UNCHANGED restOfRace

\* Connect (94-153) called by k, in four steps.
ConnectSteps(k) ==
    \* 99-170: Dial(c.ctx, ...) fails once the context is cancelled;
    \* c.conn = conn, and the HandshakeInit is written.
    \/ /\ ct.at[k] = "dial"
       /\ IF ct.ctx
          THEN ct' = [ct EXCEPT !.at[k] = Failed(k)]
          ELSE \E n \in Links :
                  /\ ct.link[n] = "none"
                  /\ \A m \in Links : m < n => ct.link[m] # "none"
                  /\ ct' = Event([ct EXCEPT !.link[n] = "open", !.conn = n,
                                            !.dialed[k] = n,
                                            !.at[k] = "hsread"], "dial")
       /\ UNCHANGED restOfRace
    \* 174-213 and 108-111: the Read of performHandshake returns the
    \* server's response, or an error: then conn.Close() and Connect
    \* returns the error.
    \/ /\ ct.at[k] = "hsread"
       /\ ct' = IF ct.link[ct.dialed[k]] = "open"
                THEN [ct EXCEPT !.at[k] = "setup"]
                ELSE [ct EXCEPT !.link[ct.dialed[k]] = "closed",
                                !.at[k] = Failed(k)]
       /\ UNCHANGED restOfRace
    \* 116-140: tun.New succeeds or fails; on success c.tunDevice is set
    \* and a tunReadLoop started (it returns at once if the context is
    \* cancelled); then connected = true.
    \/ /\ ct.at[k] = "setup"
       /\ \E tunOK \in BOOLEAN :
            LET n == ct.dialed[k]
                made == [ct EXCEPT !.dev[n] = "open", !.tunDevice = n,
                                   !.tunOn[n] = IF ct.ctx THEN @ ELSE @ + 1]
                t == IF tunOK THEN Event(Event(made, "tun"), "task") ELSE ct
            IN  ct' = [t EXCEPT !.connected = TRUE, !.at[k] = "start"]
       /\ UNCHANGED restOfRace
    \* 142-152: receiveLoop and keepaliveLoop are started (each returns at
    \* once if the context is cancelled) and Connect returns nil.
    \/ /\ ct.at[k] = "start"
       /\ ct' = Event([ct EXCEPT
                         !.recvOn[ct.conn] = IF ct.ctx THEN @ ELSE @ + 1,
                         !.ka = IF ct.ctx THEN @ ELSE @ + 1,
                         !.at[k] = Succeeded(k)], "task")
       /\ UNCHANGED restOfRace

\* keepaliveLoop (311-335), in three steps.
keepaliveLoop ==
    \* 319-320: the select takes ctx.Done.
    \/ /\ ct.ka > 0
       /\ ct.ctx
       /\ ct' = [ct EXCEPT !.ka = @ - 1]
       /\ UNCHANGED restOfRace
    \* 321-327: the select takes the tick; connected is read under RLock.
    \/ /\ ct.ka > 0
       /\ ct' = IF ct.connected
                THEN [ct EXCEPT !.ka = @ - 1, !.kaPast = @ + 1]
                ELSE [ct EXCEPT !.ka = @ - 1]
       /\ UNCHANGED restOfRace
    \* 329-330: c.conn.Write(packet.Marshal()) is called.
    \/ /\ ct.kaPast > 0
       /\ LET late == /\ ct.conn \in ct.cleared
                      /\ ~ct.connected
                      /\ ct.link[ct.conn] = "open"
          IN  ct' = EnterWrite([ct EXCEPT
                                  !.kaPast = @ - 1,
                                  !.lateKA = IF late THEN @ \cup {ct.conn}
                                             ELSE @], "keepaliveLoop")
       /\ UNCHANGED restOfRace
    \* 330-332: Write returns, an error is only logged; back to the select.
    \/ /\ \E n \in Links, ok \in BOOLEAN :
            /\ ct.inWrite["keepaliveLoop"][n][ok] > 0
            /\ ct' = [ct EXCEPT !.inWrite["keepaliveLoop"][n][ok] = @ - 1,
                                !.ka = @ + 1]
       /\ UNCHANGED restOfRace

\* tunReadLoop (217-253) of a task blocked in the Read of device n, or
\* inside the Write on connection n.
tunReadLoop(n) ==
    \* 229-247: the Read returns a datagram, it is sealed, and
    \* c.conn.Write is called; or the device is closed, the Read fails and
    \* the task returns since the context is cancelled (231-233).
    \/ /\ ct.tunOn[n] > 0
       /\ IF ct.dev[n] = "open"
          THEN ct' = EnterWrite([ct EXCEPT !.tunOn[n] = @ - 1], "tunReadLoop")
          ELSE /\ ct.ctx
               /\ ct' = [ct EXCEPT !.tunOn[n] = @ - 1]
       /\ UNCHANGED restOfRace
    \* 247-252 and 223-229: Write returns; an error calls handleDisconnect
    \* and ends the task, otherwise the task returns at the context check
    \* or blocks in the Read of c.tunDevice.
    \/ /\ \E ok \in BOOLEAN :
            /\ ct.inWrite["tunReadLoop"][n][ok] > 0
            /\ LET t == [ct EXCEPT !.inWrite["tunReadLoop"][n][ok] = @ - 1]
               IN  IF ok
                   THEN ct' = IF t.ctx THEN t
                              ELSE [t EXCEPT !.tunOn[t.tunDevice] = @ + 1]
                   ELSE /\ CanHandle(t)
                        /\ ct' = handleDisconnectOn(t, n)
       /\ UNCHANGED restOfRace

\* receiveLoop (256-308) of a task blocked in the Read of connection n: a
\* Data or KeepAlive frame of the server (then the context check and the
\* Read of c.conn), or an error: handleDisconnect unless the context is
\* cancelled, and the task returns.
receiveLoop(n) ==
    /\ ct.recvOn[n] > 0
    /\ LET t == [ct EXCEPT !.recvOn[n] = @ - 1]
       IN  IF ct.link[n] = "open"
           THEN ct' = IF t.ctx THEN t ELSE [t EXCEPT !.recvOn[t.conn] = @ + 1]
           ELSE /\ CanHandle(t)
                /\ ct' = IF t.ctx THEN t ELSE handleDisconnectOn(t, n)
    /\ UNCHANGED restOfRace

\* Disconnect (376-399), called by the main task after its Connect
\* returned nil, in five steps.
DisconnectSteps ==
    \* 379-381
    \/ /\ ct.at[0] = "done"
       /\ ct.disc = "no"
       /\ ct' = [ct EXCEPT !.connected = FALSE, !.cleared = @ \cup {ct.conn},
                           !.disc = "cleared"]
       /\ UNCHANGED restOfRace
    \* 384-386: c.conn.Write of the Disconnect frame is called.
    \/ /\ ct.disc = "cleared"
       /\ ct' = EnterWrite([ct EXCEPT !.disc = "writing"], "Disconnect")
       /\ UNCHANGED restOfRace
    \* 386-387: Write returns and c.conn.Close().
    \/ /\ ct.disc = "writing"
       /\ ct' = [ct EXCEPT
                   !.inWrite["Disconnect"] =
                       [n \in Links |-> [ok \in BOOLEAN |-> 0]],
                   !.link[ct.conn] = "closed", !.disc = "closed"]
       /\ UNCHANGED restOfRace
    \* 390-393: c.cancel() and c.tunDevice.Close().
    \/ /\ ct.disc = "closed"
       /\ ct' = [ct EXCEPT
                   !.ctx = TRUE,
                   !.dev = IF ct.tunDevice = 0 THEN @
                           ELSE [@ EXCEPT ![ct.tunDevice] = "closed"],
                   !.disc = "waiting"]
       /\ UNCHANGED restOfRace
    \* 396-398: c.wg.Wait() returns when no counted task is left.
    \/ /\ ct.disc = "waiting"
       /\ Wg(ct) = 0
       /\ ct' = [ct EXCEPT !.disc = "returned"]
       /\ UNCHANGED restOfRace

\* The transport of connection n fails.
LinkLost(n) ==
    /\ ct.link[n] = "open"
    /\ ct' = [ct EXCEPT !.link[n] = "lost"]
    /\ UNCHANGED restOfRace

NextRace ==
    \/ \E k \in Loops : reconnectLoop(k)
    \/ \E k \in Callers : ConnectSteps(k)
    \/ keepaliveLoop
    \/ \E n \in Links : tunReadLoop(n)
    \/ \E n \in Links : receiveLoop(n)
    \/ DisconnectSteps
    \/ \E n \in Links : LinkLost(n)

SpecRace == InitRace /\ [][NextRace]_vars

(***************************************************************************)
(* SpecWebSocket: one WebSocket connection; end A writes binary messages   *)
(* of 1 .. MaxWsLen bytes, end B reads them into buffers of 1 .. MaxWsLen  *)
(* bytes.                                                                  *)
(***************************************************************************)
WsMsgs ==
    {[i \in 1..n |-> i] : n \in 1..MaxWsLen} \cup
    {[i \in 1..n |-> ByteRange - i] : n \in 1..MaxWsLen}

InitWebSocket ==
    /\ tr = [NoTransport EXCEPT !.variant = "websocket"]
    /\ frame = NoFrame
    /\ run = NoTasks
    /\ now = 0
    /\ fed = <<>>
    /\ net = NoHost
    /\ ct = NoRace
    /\ ServerNew
    /\ NoConnections
    /\ ClientNew
    /\ NoPoolCalls
    /\ NoKeySchedule

\* conn.Write(b) on end A.
WsWrite(b) ==
    /\ Len(tr.sent["AB"]) < MaxWsWrites
    /\ tr' = WebSocketWrite(tr, "A", b)
    /\ UNCHANGED restOfTransport

\* conn.Read(buf) on end B with len(buf) = cap returns.
WsRead(cap) ==
    /\ WebSocketCanRead(tr, "B")
    /\ tr' = WebSocketRead(tr, "B", cap)
    /\ UNCHANGED restOfTransport

NextWebSocket ==
    \/ \E b \in WsMsgs : WsWrite(b)
    \/ \E cap \in 1..MaxWsLen : WsRead(cap)

SpecWebSocket == InitWebSocket /\ [][NextWebSocket]_vars

(***************************************************************************)
(* SpecClient: the client with every one of its tasks, against a server    *)
(* that answers as it pleases.                                             *)
(***************************************************************************)
\* What the server sends: the HandshakeResponse of a server that gave out
\* its first address, and a KeepAlive (318, 365; the server writes no
\* Disconnect packet).
ServerMsgs ==
    { Marshal(NewPacket(PacketTypeHandshakeResponse, MaxSessionID,
          MarshalHandshakeResponse(
              [ServerPublicKey |-> GenerateKeyPair(ServerKeyGen).PublicKey,
               SessionID |-> MaxSessionID,
               AssignedIP |-> Allocate(NewIPPool(ServerMaxHosts)).ip,
               ServerIP |-> ServerIP, Subnet |-> SubnetBits]))),
      Marshal(NewPacket(PacketTypeKeepAlive, MaxSessionID, EmptyPayload)) }

InitClient ==
    /\ ServerNew
    /\ NoConnections
    /\ ClientNew
    /\ NoAux
    /\ NoPoolCalls
    /\ NoKeySchedule

restOfClient ==
    <<srvKeyPair, ctxDone, sessions, handler, srvTunWritten, srvTunRead,
      ipPool, callVars, keyVars, frame, tr, now, fed, net, ct>>

ClientConnect ==
    /\ \E c \in Conns : TaskConnect(c)
    /\ UNCHANGED restOfClient

ClientHandshake ==
    /\ \E tunOK \in BOOLEAN : TaskPerformHandshake(tunOK)
    /\ UNCHANGED restOfClient

ClientTun(dev) ==
    /\ \E rnd \in LinkRnds :
          TunReadLoopTurn(dev, Datagram(cli.serverIP, MaxBody), rnd)
    /\ UNCHANGED restOfClient

ClientTunClosed(dev) ==
    /\ TunReadLoopClosed(dev)
    /\ UNCHANGED restOfClient

ClientReceive(c) ==
    /\ ReceiveLoopTurn(c)
    /\ UNCHANGED restOfClient

ClientKeepalive ==
    /\ KeepaliveTick
    /\ UNCHANGED restOfClient

ClientDisconnect ==
    /\ TaskDisconnect
    /\ UNCHANGED restOfClient

ClientDisconnectReturns ==
    /\ DisconnectReturns
    /\ UNCHANGED restOfClient

\* The server writes a message on the connection the client uses.
ServerSends(c) ==
    /\ c = cli.conn
    /\ connState[c] = "open"
    /\ Len(s2c[c]) < MaxInFlight
    /\ \E m \in ServerMsgs : s2c' = [s2c EXCEPT ![c] = Append(@, m)]
    /\ UNCHANGED <<connState, c2s, clientVars, run, restOfClient>>

\* The server reads a message of connection c.
ServerTakes(c) ==
    /\ c2s[c] # <<>>
    /\ c2s' = [c2s EXCEPT ![c] = Tail(@)]
    /\ UNCHANGED <<connState, s2c, clientVars, run, restOfClient>>

NextClient ==
    \/ ClientConnect
    \/ ClientHandshake
    \/ \E dev \in Conns : ClientTun(dev)
    \/ \E dev \in Conns : ClientTunClosed(dev)
    \/ \E c \in Conns : ClientReceive(c)
    \/ ClientKeepalive
    \/ ClientDisconnect
    \/ ClientDisconnectReturns
    \/ \E c \in Conns : ServerSends(c)
    \/ \E c \in Conns : ServerTakes(c)
    \/ \E c \in Conns : ConnBreak(c)

SpecClient == InitClient /\ [][NextClient]_vars

\* Every task takes the steps that wait for nothing but the scheduler or
\* for a Read that can return; reconnectLoop dials after its sleep.
\* Nothing makes a datagram arrive on a tunnel device or the server send.
FairClient ==
    /\ SpecClient
    /\ WF_vars(ClientConnect)
    /\ WF_vars(ClientHandshake)
    /\ WF_vars(ClientKeepalive)
    /\ WF_vars(ClientDisconnectReturns)
    /\ \A c \in Conns :
          /\ WF_vars(ClientReceive(c))
          /\ WF_vars(ClientTunClosed(c))

(***************************************************************************)
(* Claims about the pool.                                                  *)
(***************************************************************************)
FreeHosts(p) == Hosts(p) \ p.used

\* C2: in every reachable pool state the used set holds at most capacity-2
\* addresses (all of them host numbers 2..capacity-1), Allocate reports
\* 'exhausted' if and only if it holds exactly capacity-2, and Allocate
\* succeeds whenever some host address is free.
C2_ExhaustedIffFull ==
    /\ ipPool.used \subseteq Hosts(ipPool)
    /\ Cardinality(ipPool.used) <= PoolSize(ipPool)
    /\ (Allocate(ipPool).err = Exhausted) <=>
           (Cardinality(ipPool.used) = PoolSize(ipPool))
    /\ (FreeHosts(ipPool) # {}) => (Allocate(ipPool).err = "")

\* Repeated Allocate calls on p, with no Release, return ip before any of
\* them reports 'exhausted'.
RECURSIVE ReturnedBeforeExhausted(_, _)
ReturnedBeforeExhausted(p, ip) ==
    LET r == Allocate(p)
    IN  IF r.err = Exhausted THEN FALSE
        ELSE IF r.ip = ip THEN TRUE
        ELSE ReturnedBeforeExhausted(r.pool, ip)

\* C3: after any Release(a) of an allocated address a, a is allocatable
\* again: repeated Allocate calls return a before any reports 'exhausted',
\* whatever the cursor and the other addresses in use.
C3_ReleasedAllocatable ==
    [][\A a \in ipPool.used :
          (ipPool' = Release(ipPool, a)) => ReturnedBeforeExhausted(ipPool', a)]_vars

\* C4: from a fresh pool over 2^k addresses and with no Release, the n-th
\* Allocate returns host n+1 for n = 1 .. 2^k - 3 (.2, .3, ..., .254 on a
\* /24) and every later call reports 'exhausted'.
C4_FreshPoolOrder ==
    (poolFresh /\ poolCalls > 0) =>
        IF poolCalls <= PoolSize(ipPool)
        THEN poolRet = [ip |-> poolCalls + 1, err |-> ""]
        ELSE poolRet = [ip |-> NoIP, err |-> Exhausted]

\* The largest fresh pool has been filled and the next call was refused.
C4_Witness ==
    /\ poolFresh
    /\ ipPool.maxHosts = Pow2(MaxHostBits)
    /\ poolCalls = PoolSize(ipPool) + 1
    /\ poolRet.err = Exhausted
    /\ ipPool.used = Hosts(ipPool)

(***************************************************************************)
(* Claims about the key schedule.                                          *)
(***************************************************************************)
\* C9: for every shared secret and salt, the initiator's SendKey is the
\* responder's RecvKey and the initiator's RecvKey is the responder's
\* SendKey, and whatever one side Encrypts the other Decrypts to the same
\* plaintext.
C9_DirectionalKeys ==
    /\ kI.SendKey = kR.RecvKey
    /\ kI.RecvKey = kR.SendKey
    /\ \A i \in 1..Len(kGot) :
          /\ ~kGot[i].err
          /\ kGot[i].plaintext = kGot[i].sent

\* Each side has opened what the other sealed: the responder's second
\* packet has been opened by the initiator and the initiator has sent too.
C9_Witness ==
    /\ kGot # <<>>
    /\ kGot[1].sent.dst = 2
    /\ ~kGot[1].err
    /\ kI.RecvNonce = MaxSend
    /\ kR.RecvNonce >= 1

(***************************************************************************)
(* Claims about the server's sessions.                                     *)
(***************************************************************************)
\* The handlers whose session holds an address: from Allocate's return (277)
\* to the deferred Release (300).
Holding == {"allocated", "registered", "established", "releasing"}

Live(c) == handler[c].pc \in Holding

\* C1: no two sessions in the table, and no two handlers holding an
\* address, have the same assigned address; every table entry has exactly
\* one address, a host of the pool marked used; and a session keeps its
\* address for its whole life, in the handler and in the table.
C1_OneAddressPerSession ==
    /\ [](/\ \A i, j \in DOMAIN sessions :
                i # j => sessions[i].AssignedIP # sessions[j].AssignedIP
          /\ \A c, d \in Conns :
                (c # d /\ Live(c) /\ Live(d)) =>
                    handler[c].clientIP # handler[d].clientIP
          /\ \A i \in DOMAIN sessions :
                /\ sessions[i].AssignedIP \in Hosts(ipPool) \cap ipPool.used
                /\ Live(sessions[i].Conn)
                /\ sessions[i].AssignedIP = handler[sessions[i].Conn].clientIP)
    /\ [][/\ \A c \in Conns :
               (Live(c) /\ handler'[c].pc \in Holding) =>
                   handler'[c].clientIP = handler[c].clientIP
          /\ \A i \in DOMAIN sessions \cap DOMAIN sessions' :
               sessions'[i].Conn = sessions[i].Conn =>
                   sessions'[i].AssignedIP = sessions[i].AssignedIP]_vars

\* Every address of the pool is assigned to a session in the table, each
\* to another one, while a third handshake has been refused.
C1_Witness ==
    /\ Cardinality(DOMAIN sessions) = PoolSize(ipPool)
    /\ {sessions[i].AssignedIP : i \in DOMAIN sessions} = Hosts(ipPool)
    /\ \E c \in Conns : handler[c].pc = "closed" /\ handler[c].err = Exhausted

\* C5: a handler that fails before registering leaves the table and the
\* pool unchanged, writes nothing and only closes the connection; a handler
\* that has finished after registering has no entry left in the table and
\* has released its address exactly once; a closed handler does nothing
\* more.
C5_HandlerExit ==
    /\ [](\A c \in Conns :
            /\ handler[c].released <= 1
            /\ handler[c].pc = "closed" =>
                  /\ connState[c] = "closed"
                  /\ \A i \in DOMAIN sessions : sessions[i].Conn # c
                  /\ handler[c].released =
                        IF handler[c].clientIP = NoIP THEN 0 ELSE 1)
    /\ [][\A c \in Conns :
            /\ (handler[c].pc = "accepted" /\ handler'[c].pc = "closed") =>
                  /\ sessions' = sessions
                  /\ ipPool' = ipPool
                  /\ s2c' = s2c
                  /\ connState'[c] = "closed"
                  /\ handler'[c].clientIP = NoIP
            /\ (handler[c].pc = "releasing" /\ handler'[c].pc = "closed") =>
                  /\ ipPool' = Release(ipPool, handler[c].clientIP)
                  /\ handler[c].clientIP \notin ipPool'.used
                  /\ sessions' = sessions
            /\ handler[c].pc = "closed" => handler'[c] = handler[c]]_vars

\* One handler has failed before registering and another has finished
\* after registering, while a third session is live.
C5_Witness ==
    \E c, d, e \in Conns :
        /\ handler[c].pc = "closed" /\ handler[c].err = HandshakeError
        /\ handler[d].pc = "closed" /\ handler[d].released = 1
        /\ handler[e].pc = "established"

\* Every host address of the pool is in use.
PoolFull == Hosts(ipPool) \subseteq ipPool.used

\* C6: when every address is in use, a further handshake is aborted: the
\* handler's step on the first message writes nothing, adds no session,
\* takes no address and closes the connection, and the other sessions are
\* as before.
C6_ExhaustedAborts ==
    [][\A c \in Conns :
         (PoolFull /\ handler[c].pc = "accepted" /\ handler'[c] # handler[c]) =>
             /\ handler'[c].pc = "closed"
             /\ handler'[c].clientIP = NoIP
             /\ connState'[c] = "closed"
             /\ s2c' = s2c
             /\ sessions' = sessions
             /\ ipPool' = ipPool
             /\ \A d \in Conns \ {c} : handler'[d] = handler[d]]_vars

\* A usable HandshakeInit was refused for want of an address while the
\* sessions holding the addresses go on.
C6_Witness ==
    /\ PoolFull
    /\ \E c \in Conns :
          /\ handler[c].pc = "closed"
          /\ handler[c].err = Exhausted
          /\ s2c[c] = <<>>
          /\ \A d \in Conns \ {c} :
                handler[d].pc = "established" /\ d \in {sessions[i].Conn : i \in DOMAIN sessions}

(***************************************************************************)
(* Claims about the link.                                                  *)
(***************************************************************************)
\* C7: after a handshake that completed on both sides (the client accepted
\* the HandshakeResponse, the server's session is registered and live) the
\* client's send key is the session's receive key on the server and the
\* client's receive key is its send key.
C7_SameKeys ==
    \A c \in Conns :
        (cli.pc = "connected" /\ cli.conn = c /\ handler[c].pc = "established") =>
            /\ cli.cryptoSession.SendKey = handler[c].cryptoSession.RecvKey
            /\ cli.cryptoSession.RecvKey = handler[c].cryptoSession.SendKey

\* No connection has been closed or has broken.
Undisturbed == \A c \in Conns : connState[c] # "closed"

InLog(d, log) == \E i \in 1..Len(log) : log[i] = d

\* C8: after a completed handshake and with no transport error, every
\* datagram read from the client's tunnel is eventually written, the same,
\* to the server's tunnel, and every datagram read from the server's tunnel
\* for the client's assigned address is eventually written, the same, to
\* the client's tunnel.
C8_RoundTrip ==
    \A body \in Bodies :
        /\ (/\ cli.pc = "connected"
            /\ Undisturbed
            /\ InLog(Datagram(ServerIP, body), cliTunRead))
              ~> (\/ ~Undisturbed
                  \/ InLog(Datagram(ServerIP, body), srvTunWritten))
        /\ (/\ cli.pc = "connected"
            /\ Undisturbed
            /\ InLog(Datagram(cli.assignedIP, body), srvTunRead))
              ~> (\/ ~Undisturbed
                  \/ InLog(Datagram(cli.assignedIP, body), cliTunWritten))

\* C10: in any two distinct sessions the public key a peer presents (and
\* with it the private key it uses for the key agreement) differs: no
\* client key and no server key is seen in the handshakes of two
\* connections.
C10_FreshKeys ==
    \A c, d \in Conns :
        c # d =>
            /\ (hsKeys[c].client # 0 /\ hsKeys[d].client # 0) =>
                   hsKeys[c].client # hsKeys[d].client
            /\ (hsKeys[c].server # 0 /\ hsKeys[d].server # 0) =>
                   hsKeys[c].server # hsKeys[d].server


(***************************************************************************)
(* Claims about framing.                                                   *)
(***************************************************************************)
\* C11: for every well-formed packet p, UnmarshalPacket(p.Marshal())
\* succeeds and returns a packet equal to p in every header field and in
\* the payload; and for every byte string on which UnmarshalPacket
\* succeeds, Marshal of the result equals that byte string.
C11_FramingRoundTrip ==
    /\ (frame.phase \in {"parsed", "done"} /\ frame.edit = "none") =>
           /\ frame.res.err = ""
           /\ frame.res.p = frame.p
    /\ frame.phase = "done" => frame.back = frame.data

\* A packet with a payload of MaxPayload bytes and a session id that fills
\* all eight bytes went through Marshal, UnmarshalPacket and Marshal.
C11_Witness ==
    /\ frame.phase = "done"
    /\ frame.edit = "none"
    /\ Len(frame.p.Payload) = MaxPayload
    /\ frame.p.Header.SessionID[1] > ByteRange
    /\ frame.res.p = frame.p
    /\ frame.back = frame.data

\* What C12 says UnmarshalPacket accepts.
Accepted(data) ==
    /\ Len(data) >= HeaderSize
    /\ data[1] = MagicByte1
    /\ data[2] = MagicByte2
    /\ data[3] = ProtocolVersion
    /\ Uint16(SubSeq(data, 13, 14)) = Len(data) - HeaderSize

\* C12: UnmarshalPacket accepts a byte string if and only if it has at
\* least 14 bytes, bytes 0-1 are 0x48 0x56, byte 2 is 0x01 and the
\* big-endian length in bytes 12-13 equals len(bytes)-14; so a valid packet
\* with one bit of the magic, version or length field flipped is malformed,
\* and a packet with any type byte, or one bit of it flipped, is accepted.
C12_AcceptIff ==
    frame.phase \in {"parsed", "done"} =>
        /\ (frame.res.err = "") <=> Accepted(frame.data)
        /\ (frame.edit = "flip" /\ frame.flip.byte \in {0, 1, 2, 12, 13}) =>
               frame.res.err # ""
        /\ (frame.edit = "none" \/ (frame.edit = "flip" /\ frame.flip.byte = 3)) =>
               /\ frame.res.err = ""
               /\ frame.res.p.Header.Type = frame.data[4]

\* A packet whose length field had a bit flipped was refused.
C12_Witness ==
    /\ frame.phase = "parsed"
    /\ frame.edit = "flip"
    /\ frame.flip.byte = 13
    /\ frame.p.Header.Type \notin PacketTypeHandshakeInit..PacketTypeDisconnect
    /\ frame.res.err = "payload length mismatch"


\* A packet as it is written: the magic, the version, and a length field
\* that fits 16 bits and counts the payload bytes after the header.
WellFormed(m) ==
    /\ m.magic1 = MagicByte1
    /\ m.magic2 = MagicByte2
    /\ m.version = ProtocolVersion
    /\ m.length \in 0..MaxUint16
    /\ m.length = m.payload.len

\* The packets of type t in flight from the client or from the server.
Written(t) ==
    {m \in UNION {{c2s[c][i] : i \in DOMAIN c2s[c]} \cup
                  {s2c[c][i] : i \in DOMAIN s2c[c]} : c \in Conns} : m.type = t}

\* C13: every packet that the client or the server writes to a transport
\* connection (HandshakeInit, HandshakeResponse, Data, KeepAlive,
\* Disconnect) carries magic 0x48 0x56, version 1 and a 16-bit length
\* field equal to the number of payload bytes after the header.
C13_WrittenWellFormed ==
    \A t \in PacketTypeHandshakeInit..PacketTypeDisconnect :
        \A m \in Written(t) : WellFormed(m)

\* A sealed datagram is in flight from the server while the client's
\* Disconnect packet is in flight to it.
C13_Witness ==
    /\ \E m \in Written(PacketTypeData) :
          m.length = NonceSize + IPv4HeaderSize + MaxBody + TagSize
    /\ Written(PacketTypeDisconnect) # {}


(***************************************************************************)
(* Claims about the transports.                                            *)
(***************************************************************************)
IsPrefix(a, b) ==
    /\ Len(a) <= Len(b)
    /\ \A i \in 1..Len(a) : a[i] = b[i]

\* What the Reads on wire w returned is, so far, what was written on it,
\* message for message.
DeliveredInOrder(w) == IsPrefix(tr.got[w], tr.sent[w])

\* C14: on each of the three transports, for any sequence of Write(buf)
\* on one end, each buf is delivered to exactly one Read on the peer with
\* the same length and content and in send order (as long as the reader's
\* buffers hold a whole message), or both sides observe an error.
C14_MessageContract ==
    ~tr.small =>
        \/ \A w \in {"AB", "BA"} : DeliveredInOrder(w)
        \/ \A e \in TrEnds : tr.ends[e].err

\* C15: on an obfuscated connection whose two ends have the same key,
\* successive Reads with buffers that hold a whole message return the
\* messages written on the other end byte for byte and in order, no Read
\* fails, and once everything written in one direction is read (nothing
\* written in the other), writer and reader are at the same key position.
C15_ObfuscatedRoundTrip ==
    (tr.variant = "obfuscated" /\ ~tr.small) =>
        /\ \A w \in {"AB", "BA"} : DeliveredInOrder(w)
        /\ \A e \in TrEnds : ~tr.ends[e].err
        /\ \A e \in TrEnds :
              (/\ tr.wire[OutWire(e)] = <<>>
               /\ tr.sent[InWire(e)] = <<>>) =>
                  \A f \in TrEnds : tr.ends[f].keyPos = tr.ends[e].keyPos


(***************************************************************************)
(* Claims about shutdown and timeouts.                                     *)
(***************************************************************************)
\* No handleConnection task is running: wg.Wait() in Stop can return.
HandlersDone == \A c \in Conns : handler[c].pc \in {"idle", "closed"}

\* C16: after Stop() every server task eventually terminates, so that
\* Stop() returns, whatever the connected clients do (clients that stay
\* connected and send nothing included); and when Stop() has returned the
\* session table is empty and every allocated address is back in the pool.
C16_StopReturns ==
    /\ ctxDone ~> HandlersDone
    /\ [](ctxDone /\ HandlersDone => DOMAIN sessions = {} /\ ipPool.used = {})

\* C17: an accepted connection whose peer never sends a HandshakeInit does
\* not keep its handler in Accepted forever: the handshake completes or the
\* server closes the connection.
C17_HandshakeTimeout ==
    \A c \in Conns : (handler[c].pc = "accepted") ~> (handler[c].pc # "accepted")


(***************************************************************************)
(* Claims about the client's reconnects, tasks and Disconnect.             *)
(***************************************************************************)
\* C18: the transport connection of the previous session is closed before
\* a retry dials a new one, so the client never holds two open transport
\* connections.
C18_OneConnectionHeld ==
    Cardinality(run.held) <= 1

\* C19: at every moment the client runs at most one tunReadLoop, one
\* receiveLoop and one keepaliveLoop and holds at most one open tunnel
\* device; and when a reconnect dials, the tunnel and the tasks of the
\* lost connection are gone.
C19_OneOfEachTask ==
    /\ TunTasks <= 1
    /\ RecvTasks <= 1
    /\ run.ka <= 1
    /\ Cardinality(run.devOpen) <= 1
    /\ (cli.pc = "handshake" /\ cli.caller = "reconnectLoop") =>
           /\ TunTasks + RecvTasks + run.ka = 0
           /\ run.devOpen = {}

\* C20: from every reachable client state Disconnect() eventually returns,
\* and when it has returned no tunReadLoop, receiveLoop or keepaliveLoop of
\* the client is still running.
C20_DisconnectReturns ==
    /\ (run.disc = "waiting") ~> (run.disc = "returned")
    /\ [](run.disc = "returned" => TunTasks + RecvTasks + run.ka = 0)

(***************************************************************************)
(* Further claims about the pool.                                          *)
(***************************************************************************)
\* A step of the pool that took an address out of the used set.
Released == Cardinality(ipPool'.used) < Cardinality(ipPool.used)

\* A step of the pool that was a successful Allocate.
Allocated == ~Released /\ ipPool' # ipPool /\ poolRet'.err = ""

\* C28: Release(a) removes exactly a from the used set and leaves the cursor
\* and every other used address as they were; with .3 in use, .2 released
\* and the cursor at 4, the next Allocate returns .4; and an Allocate returns
\* an address below the cursor only when every host address from the cursor
\* up to the highest one is in use (the scan has wrapped).
C28_ReleaseKeepsCursor ==
    [][/\ Released =>
            /\ \E a \in ipPool.used : ipPool'.used = ipPool.used \ {a}
            /\ ipPool'.nextHost = ipPool.nextHost
            /\ ipPool'.maxHosts = ipPool.maxHosts
       /\ (Allocated /\ ipPool.used = {3} /\ ipPool.nextHost = 4
                     /\ ipPool.maxHosts > 6) => poolRet'.ip = 4
       /\ (Allocated /\ poolRet'.ip < ipPool.nextHost) =>
              (ipPool.nextHost .. (ipPool.maxHosts - 2)) \subseteq ipPool.used]_vars

\* Hosts .2 and .3 were handed out, .2 was released, and the next Allocate
\* returned .4 while .2 was free.
C28_Witness ==
    /\ ~poolFresh
    /\ poolRet = [ip |-> 4, err |-> ""]
    /\ ipPool.used = {3, 4}
    /\ ipPool.nextHost = 5

\* C29: the address returned by a successful Allocate was not in the used
\* set before the call, is in it after the call together with exactly the
\* addresses that were, and is a host number in 2..capacity-1; the used set
\* never holds .0, .1 or the broadcast address.
C29_AllocateUnusedHost ==
    [][/\ Allocated =>
            /\ poolRet'.ip \notin ipPool.used
            /\ ipPool'.used = ipPool.used \cup {poolRet'.ip}
            /\ poolRet'.ip \in Hosts(ipPool)
       /\ ipPool'.used \subseteq Hosts(ipPool')
       /\ (~Released /\ poolRet'.err = "" /\ poolRet' # poolRet) => Allocated]_vars

\* After a Release the scan wrapped past the highest host number, met host
\* numbers 0 and 1, and handed out .2, the only free address.
C29_Witness ==
    /\ ~poolFresh
    /\ poolRet = [ip |-> 2, err |-> ""]
    /\ ipPool.maxHosts = Pow2(MaxHostBits)
    /\ ipPool.nextHost = 3
    /\ ipPool.used = Hosts(ipPool)

(***************************************************************************)
(* Further claims about the key schedule.                                  *)
(***************************************************************************)
\* A step in which the addressee of the oldest ciphertext called Decrypt.
Opened == kWire # <<>> /\ kWire' = Tail(kWire) /\ kGot' # <<>>

\* C30: Decrypt of a payload shorter than the nonce or failing authentication
\* reports an error and leaves the send and receive counters (and the keys)
\* of both sides as they were; Decrypt of an undamaged payload succeeds
\* whatever failed before it, adds exactly one to the receiver's receive
\* counter and leaves its send counter and the other side untouched.
C30_DecryptCounters ==
    [][Opened =>
         LET m == Head(kWire)
             got == kGot'[1]
         IN  /\ got.err <=> ~Intact(m)
             /\ got.err => (kI' = kI /\ kR' = kR)
             /\ ~got.err =>
                  /\ got.plaintext = m.sent
                  /\ IF m.toInit
                     THEN kI' = [kI EXCEPT !.RecvNonce = @ + 1] /\ kR' = kR
                     ELSE kR' = [kR EXCEPT !.RecvNonce = @ + 1] /\ kI' = kI]_vars

\* The initiator sealed two packets; the responder's Decrypt of the first
\* failed and its Decrypt of the second has just succeeded.
C30_Witness ==
    /\ kGot # <<>>
    /\ ~kGot[1].err
    /\ kI.SendNonce = 2
    /\ kR.RecvNonce = 1
    /\ kR.SendNonce = 0
    /\ kWire = <<>>

(***************************************************************************)
(* Claims about the data loops.                                            *)
(***************************************************************************)
\* m is a frame that parses and has the type Disconnect.
IsBye(m) ==
    UnmarshalPacket(m).err = "" /\ m.type = PacketTypeDisconnect

\* The handler of c takes a Disconnect frame from its connection.
ServerReadsBye(c) ==
    /\ handler[c].pc = "established"
    /\ c2s[c] # <<>>
    /\ IsBye(Head(c2s[c]))
    /\ c2s'[c] = Tail(c2s[c])
    /\ connState' = connState

\* The client's receive loop takes a Disconnect frame from its connection.
ClientReadsBye ==
    /\ cli.pc = "connected"
    /\ s2c[cli.conn] # <<>>
    /\ IsBye(Head(s2c[cli.conn]))
    /\ s2c'[cli.conn] = Tail(s2c[cli.conn])
    /\ connState' = connState

\* Nothing is taken from channel ch of connection c in this step.
NothingTaken(ch, c) ==
    Len(ch'[c]) >= Len(ch[c]) \/ connState'[c] # connState[c]

\* C21: the handler that reads a valid Disconnect returns in that turn: its
\* session leaves the table, it writes nothing, its only further step
\* returns its address to the pool and closes, and it reads nothing more
\* from the connection.  The client's receive loop that reads a Disconnect
\* ends in that turn (handleDisconnect), writes nothing to the tunnel, and
\* nothing more is read from a connection until Connect has made the next.
C21_DisconnectEndsLoop ==
    [][/\ \A c \in Conns :
            /\ ServerReadsBye(c) =>
                  /\ handler'[c].pc = "releasing"
                  /\ \A i \in DOMAIN sessions' : sessions'[i].Conn # c
                  /\ handler[c].sessionID \notin DOMAIN sessions'
                  /\ s2c' = s2c
                  /\ srvTunWritten' = srvTunWritten
            /\ (handler[c].pc = "releasing" /\ handler'[c] # handler[c]) =>
                  /\ handler'[c].pc = "closed"
                  /\ ipPool' = Release(ipPool, handler[c].clientIP)
                  /\ handler[c].clientIP \notin ipPool'.used
                  /\ connState'[c] = "closed"
            /\ handler[c].pc \in {"releasing", "closed"} =>
                  /\ handler'[c].pc \in {"releasing", "closed"}
                  /\ NothingTaken(c2s, c)
       /\ ClientReadsBye =>
            /\ cli'.pc = "reconnecting"
            /\ ~cli'.connected
            /\ cliTunWritten' = cliTunWritten
            /\ cli'.cryptoSession = cli.cryptoSession
       /\ cli.pc = "reconnecting" =>
            \A c \in Conns : NothingTaken(s2c, c)]_vars

\* The client read a Disconnect frame on its first connection (which is
\* still open), completed the handshake on a second one and called
\* Disconnect there while the connection was whole (a frame to the client
\* is still in flight); the handler of the second has taken the Disconnect
\* frame, left the table and returned its address.
C21_Witness ==
    /\ cli.pc = "stopped"
    /\ cli.conn = 2
    /\ connState[1] = "open"
    /\ connState[2] = "closed"
    /\ hsKeys[2].server # 0
    /\ s2c[2] # <<>>
    /\ c2s[2] = <<>>
    /\ handler[2].pc = "closed"
    /\ handler[2].released = 1
    /\ \A i \in DOMAIN sessions : sessions[i].Conn # 2
    /\ handler[2].clientIP \notin ipPool.used

(***************************************************************************)
(* Claims about the sessions of the server.                                *)
(***************************************************************************)
\* The handler of c read in this step, and what its Read returned.
HasRead(c) == fed'[c] # fed[c]
LastRead(c) == fed'[c][Len(fed'[c])]

\* What a Read returned is a message with wrong magic bytes, a wrong
\* version or a length field that is not the length of its payload.
Malformed(in) ==
    /\ ~in.err
    /\ \/ <<in.msg.magic1, in.msg.magic2>> # <<MagicByte1, MagicByte2>>
       \/ in.msg.version # ProtocolVersion
       \/ in.msg.length # in.msg.payload.len

\* What a Read returned is a well-formed packet of type t.
IsPacket(in, t) == ~in.err /\ ~Malformed(in) /\ in.msg.type = t

\* The session of c is in the table with the address and keys of h.
InTable(c, h) ==
    /\ h.sessionID \in DOMAIN sessions
    /\ sessions[h.sessionID] =
           [ID |-> h.sessionID, Conn |-> c, AssignedIP |-> h.clientIP]

\* C22: a frame that UnmarshalPacket refuses (bad magic, wrong version,
\* length mismatch), read by the handler of an established session, changes
\* nothing: the session stays in the table with its address, keys and
\* counters, nothing is written; and a KeepAlive read by an established
\* handler, whatever it read before, is answered on the same connection
\* with a KeepAlive of empty payload and the session's id, the session
\* staying as it was.
C22_MalformedDropped ==
    [][\A c \in Conns :
         (HasRead(c) /\ handler[c].pc = "established") =>
            /\ Malformed(LastRead(c)) =>
                  /\ handler' = handler
                  /\ sessions' = sessions
                  /\ ipPool' = ipPool
                  /\ s2c' = s2c
                  /\ connState' = connState
                  /\ srvTunWritten' = srvTunWritten
            /\ IsPacket(LastRead(c), PacketTypeKeepAlive) =>
                  /\ s2c' = [s2c EXCEPT ![c] = Append(@,
                         Marshal(NewPacket(PacketTypeKeepAlive,
                                           handler[c].sessionID, EmptyPayload)))]
                  /\ handler' = [handler EXCEPT ![c].LastSeen = now]
                  /\ sessions' = sessions
                  /\ ipPool' = ipPool
                  /\ connState' = connState]_vars

\* The handler of connection 1 read a HandshakeInit, then a frame with
\* magic 0x48 0x00, then a KeepAlive: its answer is in flight and its
\* session is in the table.
C22_Witness ==
    /\ Len(fed[1]) = 3
    /\ fed[1][2] = Received(BadMagic(Marshal(NewPacket(PacketTypeKeepAlive,
                                handler[1].sessionID, EmptyPayload))))
    /\ IsPacket(fed[1][3], PacketTypeKeepAlive)
    /\ handler[1].pc = "established"
    /\ InTable(1, handler[1])
    /\ handler[1].clientIP \in ipPool.used
    /\ s2c[1] = <<Marshal(NewPacket(PacketTypeKeepAlive, handler[1].sessionID,
                                    EmptyPayload))>>

\* What a Read returned is a Data packet that the session s does not open.
Unopenable(in, s) ==
    /\ IsPacket(in, PacketTypeData)
    /\ \/ in.msg.payload.len < NonceSize
       \/ in.msg.payload.box.key # s.RecvKey
       \/ in.msg.payload.box.nonce # in.msg.payload.nonce

\* C23: a Data frame whose payload fails to open, read by the handler of an
\* established session, changes nothing: nothing is written to the tunnel
\* or to a connection, and the session record (keys, counters, assigned
\* address, LastSeen) and the table stay as they were.
C23_FailedDataNoEffect ==
    [][\A c \in Conns :
         (/\ HasRead(c)
          /\ handler[c].pc = "established"
          /\ Unopenable(LastRead(c), handler[c].cryptoSession)) =>
            /\ srvTunWritten' = srvTunWritten
            /\ s2c' = s2c
            /\ sessions' = sessions
            /\ ipPool' = ipPool
            /\ handler'[c].cryptoSession = handler[c].cryptoSession
            /\ handler'[c].clientIP = handler[c].clientIP
            /\ handler'[c].LastSeen = handler[c].LastSeen]_vars

\* The datagram the server's tunnel reader took in this step.
TunRead == srvTunRead' # srvTunRead
LastDatagram == srvTunRead'[Len(srvTunRead')]

\* C25: a datagram read from the server's tunnel is written to at most one
\* connection: that of the session in the table whose AssignedIP is the
\* datagram's destination, as a Data frame with that session's id, sealed
\* with that session's send key and send counter; a datagram shorter than
\* 20 bytes or with no such session causes no write and no Encrypt.
C25_TunnelDemux ==
    [][TunRead =>
         LET d == LastDatagram
             match == {i \in DOMAIN sessions : sessions[i].AssignedIP = d.dst}
             wrote == {c \in Conns : s2c'[c] # s2c[c]}
         IN  /\ Cardinality(wrote) <= 1
             /\ sessions' = sessions
             /\ (d.len < IPv4HeaderSize \/ match = {}) =>
                    (wrote = {} /\ handler' = handler)
             /\ (d.len >= IPv4HeaderSize /\ match # {}) =>
                    \E i \in match :
                       LET c == sessions[i].Conn
                           cs == handler[c].cryptoSession
                       IN  /\ wrote = {c}
                           /\ s2c'[c] = Append(s2c[c],
                                 Marshal(NewPacket(PacketTypeData, sessions[i].ID,
                                     Seal(cs.SendKey,
                                          [ctr |-> cs.SendNonce, rnd |-> MaxRnd],
                                          d))))
                           /\ handler' = [handler EXCEPT
                                  ![c].cryptoSession.SendNonce = @ + 1]]_vars

\* Two sessions hold .2 and .3; a datagram for .3 was read from the tunnel
\* and is in flight, as a Data frame, on the second connection only.
C25_Witness ==
    /\ InTable(1, handler[1])
    /\ InTable(2, handler[2])
    /\ handler[1].clientIP = 2
    /\ handler[2].clientIP = 3
    /\ srvTunRead = <<Datagram(3, 1)>>
    /\ s2c[1] = <<>>
    /\ Len(s2c[2]) = 1
    /\ s2c[2][1].type = PacketTypeData
    /\ s2c[2][1].sid = handler[2].sessionID

\* What the first Read returned is no well-formed HandshakeInit.
NotHandshakeInit(in) ==
    \/ in.err
    \/ Malformed(in)
    \/ in.msg.type # PacketTypeHandshakeInit
    \/ in.msg.payload.len < HandshakeInitSize

\* C26: when the first message of a connection is malformed, of another
\* type than HandshakeInit or shorter than 72 bytes in its body, the handler
\* closes the connection and writes nothing, allocates nothing and
\* registers nothing; Data is opened and written to the tunnel only by a
\* handler in its data loop, which it enters only from a registered session
\* whose first message was a well-formed HandshakeInit.
C26_FirstMustBeInit ==
    [][/\ \A c \in Conns :
            /\ (fed[c] = <<>> /\ HasRead(c) /\ NotHandshakeInit(LastRead(c))) =>
                  /\ handler'[c].pc = "closed"
                  /\ connState'[c] = "closed"
                  /\ s2c' = s2c
                  /\ ipPool' = ipPool
                  /\ sessions' = sessions
                  /\ srvTunWritten' = srvTunWritten
            /\ handler'[c].cryptoSession.RecvNonce >
                   handler[c].cryptoSession.RecvNonce =>
                  handler[c].pc = "established"
            /\ (handler'[c].pc = "established" /\ handler[c].pc # "established") =>
                  /\ handler[c].pc = "registered"
                  /\ fed[c] # <<>>
                  /\ ~NotHandshakeInit(fed[c][1])
       /\ srvTunWritten' # srvTunWritten =>
            \E c \in Conns : handler[c].pc = "established" /\ HasRead(c)]_vars

\* The first connection sent Data before any handshake and was closed with
\* nothing allocated, registered or written for it; the second completed
\* the handshake and its Data reached the tunnel.
C26_Witness ==
    /\ fed[1] = <<Received(Marshal(NewPacket(PacketTypeData, 0,
                     Encrypt(NoSession, Datagram(ServerIP, 1), 0).ciphertext)))>>
    /\ handler[1].pc = "closed"
    /\ handler[1].clientIP = NoIP
    /\ s2c[1] = <<>>
    /\ handler[2].pc = "established"
    /\ InTable(2, handler[2])
    /\ DOMAIN sessions = {handler[2].sessionID}
    /\ ipPool.used = {handler[2].clientIP}
    /\ srvTunWritten = <<Datagram(ServerIP, 1)>>

(***************************************************************************)
(* Claims about the nonces.                                                *)
(***************************************************************************)
\* C24: no two packets the client's tasks sealed under the same send key
\* carry the same counter value in nonce bytes 0-7, whatever connections
\* were lost and made again in between and whichever tasks sealed them.
C24_NoNonceReuse ==
    \A i, j \in 1..Len(run.sealed) :
       i # j => run.sealed[i] # run.sealed[j]

(***************************************************************************)
(* Claims about the route policy.                                          *)
(***************************************************************************)
HostRoutes(routes, server) == {r \in routes : r.dst = server}

\* C27: after one SetDefaultRoute that returned nil on a host with a default
\* gateway, the device has recorded that gateway, the host has a route to
\* the server's real address through it (when the device knows the address)
\* and the host's default route goes through the tunnel peer; after the
\* Close that follows, the default route goes through the recorded gateway
\* again and no route to the server is left.
C27_DefaultRouteRoundTrip ==
    (net.sets = 1 /\ net.err = "" /\ net.prior # NoGateway) =>
        /\ net.d.originalGateway = net.prior
        /\ IF ~net.closed
           THEN /\ net.d.vpnServerIP # "" =>
                     HostRoutes(net.routes, net.d.vpnServerIP) =
                        {[dst |-> net.d.vpnServerIP, via |-> net.prior, metric |-> 0]}
                /\ DefaultRoute(net.routes) = net.d.remoteIP
           ELSE /\ DefaultRoute(net.routes) = net.prior
                /\ HostRoutes(net.routes, net.d.vpnServerIP) = {}

\* C39: closing a device on which SetDefaultRoute was never called leaves
\* the host's routing table, default route and host routes, as it was before
\* the device was opened.
C39_CloseNeutralWithoutPolicy ==
    (net.os # "" /\ net.sets = 0 /\ net.closed) => net.routes = net.before

(***************************************************************************)
(* Claims about WebSocketConnection.Read.                                  *)
(***************************************************************************)
RECURSIVE Concat(_)
Concat(seqs) == IF seqs = <<>> THEN <<>> ELSE Head(seqs) \o Concat(Tail(seqs))

\* C31: on a WebSocket connection, for every buffer size >= 1, the bytes
\* the Read calls have returned, followed by the residue held in readBuf
\* and by the messages not yet fetched, are the bytes of the messages in
\* arrival order: no byte is lost or duplicated, and the residue of a
\* message comes before the next message.
C31_ReadKeepsResidue ==
    tr.variant = "websocket" =>
        Concat(tr.got["AB"]) \o tr.ends["B"].readBuf \o Concat(tr.wire["AB"])
            = Concat(tr.sent["AB"])

\* A three-byte message was read one byte, then two bytes at a time, and
\* the next message after them.
C31_Witness ==
    /\ tr.variant = "websocket"
    /\ tr.sent["AB"] = <<(<<1, 2, 3>>), (<<255>>)>>
    /\ tr.got["AB"] = <<(<<1>>), (<<2, 3>>), (<<255>>)>>

(***************************************************************************)
(* Claims about the pool and the session table together.                   *)
(***************************************************************************)
\* Handler c is between its Allocate (277) and its Release (300).
Holds(c) ==
    handler[c].pc \in {"allocated", "registered", "established", "releasing"}

\* C33: in every reachable server state the address of every session in
\* the table is in the pool's used set, and every address in the used set
\* is held by a handler between its Allocate and its Release.
C33_PoolTableConsistent ==
    /\ \A id \in DOMAIN sessions : sessions[id].AssignedIP \in ipPool.used
    /\ \A ip \in ipPool.used :
          \E c \in Conns : Holds(c) /\ handler[c].clientIP = ip

\* One session is in the table while another handler has deleted its entry
\* and not yet released its address, and a third has released its own.
C33_Witness ==
    /\ DOMAIN sessions # {}
    /\ \E c \in Conns :
          /\ handler[c].pc = "releasing"
          /\ handler[c].clientIP \in ipPool.used
          /\ \A id \in DOMAIN sessions : sessions[id].Conn # c
    /\ \E c \in Conns :
          /\ handler[c].pc = "closed"
          /\ handler[c].released = 1

\* C36: for every handler that has registered a session and has not yet
\* returned, the session table maps the handler's session id to the
\* handler's own session record: no registration overwrites, and no cleanup
\* removes, the entry of another live session.
C36_TableIntegrity ==
    \A c \in Conns :
        handler[c].pc \in {"registered", "established"} =>
            /\ handler[c].sessionID \in DOMAIN sessions
            /\ sessions[handler[c].sessionID] =
                  [ID |-> handler[c].sessionID, Conn |-> c,
                   AssignedIP |-> handler[c].clientIP]

(***************************************************************************)
(* Claims about the writers of a connection.                               *)
(***************************************************************************)
\* C34: on every accepted connection the first frame the server writes is
\* the HandshakeResponse: while the handler has not written it yet, nothing
\* has been written to the connection, whatever the tunnel reader does
\* between the registration of the session and the response write.
C34_ResponseIsFirstFrame ==
    \A c \in Conns :
        handler[c].pc \in {"idle", "accepted", "allocated", "registered"} =>
            s2c[c] = <<>>

\* C35: writes to one transport connection are never concurrent: at any
\* moment at most one task (tunnel reader, keepalive task, Disconnect) is
\* inside Write on a given connection.
C35_OneWriterPerConnection ==
    \A n \in Links :
        InWrite(ct, "tunReadLoop", n) + InWrite(ct, "keepaliveLoop", n)
            + InWrite(ct, "Disconnect", n) <= 1

(***************************************************************************)
(* Claims about the client's tasks under every interleaving.               *)
(***************************************************************************)
\* C32: once the connected flag has been cleared, by Disconnect or by
\* handleDisconnect, the keepalive task writes no further KeepAlive frame
\* on the connection that was in use, under every interleaving of the
\* keepalive tick with the clearing of the flag.
C32_FlagGatesKeepalive == ct.lateKA = {}

\* C37: the loss of one connection starts at most one reconnect loop,
\* whichever tasks detect it and in whatever order, and at most one
\* reconnect loop is dialing at any time.
C37_OneReconnectPerLoss ==
    /\ \A n \in Links : ct.spawned[n] <= 1
    /\ Cardinality({k \in Loops : ct.at[k] \in {"dial", "hsread"}}) <= 1

\* C38: after Disconnect has returned the connected flag is false, the
\* connection c.conn is not open, and nothing is dialed, no tunnel device
\* is made and no task is started any more.
C38_DisconnectIsFinal ==
    ct.disc = "returned" =>
        /\ ~ct.connected
        /\ ct.conn # 0 => ct.link[ct.conn] # "open"
        /\ ct.after = {}

====
